---- MODULE Spec2Model ----
(***************************************************************************)
(* A model of the statement interpreter of the RDBMS project               *)
(* (src/src/query.js) together with the parts of the database module       *)
(* (src/src/database.js) that share its storage.                           *)
(*                                                                         *)
(* The program keeps three entries in localStorage:                        *)
(*   rdbms_databases    the DatabaseSet            (variable databases)    *)
(*   rdbms_snapshots    the snapshot stack         (variable snapshots)    *)
(*   selected_database  the active selection       (variable selected)     *)
(* and shows the outcome of a statement in #query-results (variable        *)
(* result).  Ids are readings of the millisecond clock (variable now).     *)
(*                                                                         *)
(* Text is modelled as follows.  Identifiers that the statement regexes    *)
(* capture with \w+ are TLA+ strings, with toLowerCase() given by Lower.   *)
(* Literals and the SET clause of UPDATE are sequences of one-character    *)
(* strings, so that quoting, splitting and the regexes' quantifiers are    *)
(* computed on characters.  A JavaScript value is a record [k, v]: k is    *)
(* its type ("num", "str", "bool") and v its String() form as characters.  *)
(***************************************************************************)
EXTENDS Integers, Sequences, FiniteSets, TLC

VARIABLES databases, snapshots, selected, now, result, hist, callers

vars == <<databases, snapshots, selected, now, result, hist, callers>>

(* ------------------------------ bounds -------------------------------- *)

\* Largest clock reading (milliseconds are counted from 1).
MaxClock == 2
\* Largest depth the snapshot stack reaches: a statement other than COMMIT
\* and ROLLBACK is submitted only below it.
MaxSnap == 2
\* Largest number of rows of a table in the runs that add rows one by one.
MaxRows == 2
\* Largest number of columns that the manage-columns form gives a table.
MaxColumns == 2
\* Largest size of the DatabaseSet, counted in databases, tables, rows and
\* permission events: a statement that can add one is submitted only below it.
MaxObjects == 3

(* --------------------------- text helpers ----------------------------- *)

\* String.prototype.toLowerCase on the identifiers of the model.
Lower(s) ==
    CASE s = "T" -> "t"
      [] s = "U" -> "u"
      [] s = "A" -> "a"
      [] s = "B" -> "b"
      [] s = "D" -> "d"
      [] s = "E" -> "e"
      [] s = "T_1" -> "t_1"
      [] OTHER -> s

\* Array.prototype.findIndex: the first index whose element satisfies P, 0 for -1.
FindIndex(s, P(_)) ==
    IF \E i \in DOMAIN s : P(s[i])
    THEN CHOOSE i \in DOMAIN s : P(s[i]) /\ \A j \in 1..(i - 1) : ~P(s[j])
    ELSE 0

\* Array.prototype.some
Some(s, P(_)) == \E i \in DOMAIN s : P(s[i])

Digits == {"0", "1", "2", "3", "4", "5", "6", "7", "8", "9"}

DigitVal(c) ==
    CASE c = "0" -> 0 [] c = "1" -> 1 [] c = "2" -> 2 [] c = "3" -> 3
      [] c = "4" -> 4 [] c = "5" -> 5 [] c = "6" -> 6 [] c = "7" -> 7
      [] c = "8" -> 8 [] OTHER -> 9

\* !isNaN(text) for the texts of the model: the empty text (Number("") is 0)
\* and digit strings are numeric.
IsNumericText(cs) == \A i \in DOMAIN cs : cs[i] \in Digits

RECURSIVE NumberOf(_)
\* Number(text) of a numeric text.
NumberOf(cs) ==
    IF cs = <<>> THEN 0
    ELSE 10 * NumberOf(SubSeq(cs, 1, Len(cs) - 1)) + DigitVal(cs[Len(cs)])

RECURSIVE DigitsOf(_)
\* Number.prototype.toString of a natural number.
DigitsOf(n) ==
    LET d == CHOOSE c \in Digits : DigitVal(c) = n % 10
    IN IF n < 10 THEN <<d>> ELSE Append(DigitsOf(n \div 10), d)

IsSpace(c) == c = " "

RECURSIVE TrimLeft(_)
TrimLeft(cs) ==
    IF cs # <<>> /\ IsSpace(cs[1]) THEN TrimLeft(Tail(cs)) ELSE cs

RECURSIVE TrimRight(_)
TrimRight(cs) ==
    IF cs # <<>> /\ IsSpace(cs[Len(cs)])
    THEN TrimRight(SubSeq(cs, 1, Len(cs) - 1)) ELSE cs

\* String.prototype.trim
Trim(cs) == TrimRight(TrimLeft(cs))

RECURSIVE Split(_, _)
\* String.prototype.split(ch): the pieces between the occurrences of ch.
Split(cs, ch) ==
    LET k == FindIndex(cs, LAMBDA c : c = ch)
    IN IF k = 0 THEN <<cs>>
       ELSE <<SubSeq(cs, 1, k - 1)>> \o Split(SubSeq(cs, k + 1, Len(cs)), ch)

IsQuote(c) == c = "'" \/ c = "\""

\* The literal conversion shared by INSERT (query.js 193-205), UPDATE
\* (275-285) and the WHERE clause (681-689): a text between two equal quote
\* characters is unwrapped, true/false become booleans, numeric text becomes
\* a number, anything else stays text.  (The model's literals are lower-case,
\* so toLowerCase() is the identity on them.)
ParseLiteral(cs) ==
    IF cs # <<>> /\ IsQuote(cs[1]) /\ cs[Len(cs)] = cs[1]
    THEN [k |-> "str", v |-> IF Len(cs) = 1 THEN cs ELSE SubSeq(cs, 2, Len(cs) - 1)]
    ELSE IF cs = <<"t", "r", "u", "e">> THEN [k |-> "bool", v |-> cs]
    ELSE IF cs = <<"f", "a", "l", "s", "e">> THEN [k |-> "bool", v |-> cs]
    ELSE IF IsNumericText(cs) THEN [k |-> "num", v |-> DigitsOf(NumberOf(cs))]
    ELSE [k |-> "str", v |-> cs]

(* ------------------------------ storage ------------------------------- *)

\* localStorage.getItem('selected_database') when the key is absent.
NoSelection == 0

\* The content of #query-results before any statement was submitted.
NoResult == [op |-> "", type |-> "none", msg |-> "", n |-> 0,
             columns |-> <<>>, rows |-> <<>>]

\* The storage that one handler works on.
Store == [databases |-> databases, snapshots |-> snapshots,
          selected |-> selected, result |-> result]

\* getDatabases / saveDatabases: the whole DatabaseSet is read and written.
getDatabases(st) == st.databases

saveDatabases(st, dbs) == [st EXCEPT !.databases = dbs]

\* getSelectedDatabase: the index of the first database whose id is the
\* stored selection, 0 for null.
getSelectedDatabase(st) ==
    IF st.selected = NoSelection THEN 0
    ELSE FindIndex(getDatabases(st), LAMBDA db : db.id = st.selected)

\* pushSnapshot with the push left out.
pushNothing(st) == st

pushSnapshot(st) ==
    [st EXCEPT !.snapshots = Append(@, getDatabases(st))]

\* popSnapshot removing the oldest entry of the stack, shift() in the place
\* of pop().
popSnapshotShift(st) ==
    [st EXCEPT !.snapshots = IF @ = <<>> THEN <<>> ELSE Tail(@)]

\* popSnapshot: the stack without its last entry; the entry is read with Top.
popSnapshot(st) ==
    [st EXCEPT !.snapshots = IF @ = <<>> THEN <<>> ELSE SubSeq(@, 1, Len(@) - 1)]

\* The oldest entry of the stack, where Top reads the newest: shift() in
\* the place of pop().
Bottom(stack) == stack[1]

Top(stack) == stack[Len(stack)]

\* clearSnapshots discarding only the newest entry.
clearTopSnapshot(st) ==
    [st EXCEPT !.snapshots = IF @ = <<>> THEN <<>> ELSE SubSeq(@, 1, Len(@) - 1)]

clearSnapshots(st) == [st EXCEPT !.snapshots = <<>>]

\* showQueryResult(result) for a result that is only a message; n is the
\* number the message text carries (rows inserted, updated or deleted).  op
\* is the leading keyword of the statement in #sql-query.
Message(st, op, msg, n) ==
    [st EXCEPT !.result = [op |-> op, type |-> "message", msg |-> msg, n |-> n,
                           columns |-> <<>>, rows |-> <<>>]]

\* A thrown error as the catch of executeQuery shows it.
Throw(st, op, msg) ==
    [st EXCEPT !.result = [op |-> op, type |-> "error", msg |-> msg, n |-> 0,
                           columns |-> <<>>, rows |-> <<>>]]

(* ------------------------- values and WHERE --------------------------- *)

\* ToNumber of a value for the loose comparisons: NaN for non-numeric text.
ToNumber(x) ==
    IF x.k = "bool" THEN [nan |-> FALSE, n |-> IF x.v = <<"t", "r", "u", "e">> THEN 1 ELSE 0]
    ELSE IF IsNumericText(Trim(x.v)) THEN [nan |-> FALSE, n |-> NumberOf(Trim(x.v))]
    ELSE [nan |-> TRUE, n |-> 0]

\* a == b of JavaScript on two primitive values: values of one type are
\* compared as they are, values of different types as numbers.
LooseEq(a, b) ==
    IF a.k = b.k THEN a.v = b.v
    ELSE ~ToNumber(a).nan /\ ~ToNumber(b).nan /\ ToNumber(a).n = ToNumber(b).n

\* The UTF-16 code unit of the characters of the model.
CharCode(c) ==
    CASE c = " " -> 32 [] c = "!" -> 33 [] c = "\"" -> 34 [] c = "'" -> 39
      [] c = "(" -> 40 [] c = ")" -> 41 [] c = "," -> 44
      [] c \in Digits -> 48 + DigitVal(c)
      [] c = "<" -> 60 [] c = "=" -> 61 [] c = ">" -> 62
      [] c = "a" -> 97 [] c = "b" -> 98 [] c = "e" -> 101 [] c = "f" -> 102
      [] c = "l" -> 108 [] c = "r" -> 114 [] c = "s" -> 115 [] c = "t" -> 116
      [] c = "u" -> 117 [] c = "x" -> 120 [] c = "y" -> 121
      [] OTHER -> 122

RECURSIVE TextLess(_, _)
\* a < b on two strings: by code units, a proper prefix first.
TextLess(a, b) ==
    IF b = <<>> THEN FALSE
    ELSE IF a = <<>> THEN TRUE
    ELSE IF a[1] # b[1] THEN CharCode(a[1]) < CharCode(b[1])
    ELSE TextLess(Tail(a), Tail(b))

\* a < b of JavaScript: two strings by code units, anything else as numbers
\* (false when either side is NaN).
LooseLess(a, b) ==
    IF a.k = "str" /\ b.k = "str" THEN TextLess(a.v, b.v)
    ELSE ~ToNumber(a).nan /\ ~ToNumber(b).nan /\ ToNumber(a).n < ToNumber(b).n

\* a <= b of JavaScript (not the negation of b < a when a side is NaN).
LooseLessEq(a, b) ==
    IF a.k = "str" /\ b.k = "str" THEN ~TextLess(b.v, a.v)
    ELSE ~ToNumber(a).nan /\ ~ToNumber(b).nan /\ ToNumber(a).n <= ToNumber(b).n

\* The characters of the class [=><] of the operator regex.
OperatorChars == {"=", ">", "<"}

RECURSIVE OperatorRun(_)
\* What ([=><]+) captures at the start of a text: its longest prefix of
\* operator characters.
OperatorRun(cs) ==
    IF cs # <<>> /\ cs[1] \in OperatorChars
    THEN <<cs[1]>> \o OperatorRun(Tail(cs)) ELSE <<>>

\* The row's own property row[column.id]: <<>> for undefined.
Cell(row, colId) == IF colId \in DOMAIN row.cells THEN <<row.cells[colId]>> ELSE <<>>

\* The switch of filterRowsByCondition (query.js 695-711) on one cell: "yes",
\* "no", or "throw" for an operator that is none of the seven.  An undefined
\* cell is loosely equal to nothing and ordered with nothing.
Compare(cell, operator, value) ==
    CASE operator = <<"=">> ->
           IF cell # <<>> /\ LooseEq(cell[1], value) THEN "yes" ELSE "no"
      [] operator \in {<<"!", "=">>, <<"<", ">">>} ->
           IF cell # <<>> /\ LooseEq(cell[1], value) THEN "no" ELSE "yes"
      [] operator = <<">">> ->
           IF cell # <<>> /\ LooseLess(value, cell[1]) THEN "yes" ELSE "no"
      [] operator = <<"<">> ->
           IF cell # <<>> /\ LooseLess(cell[1], value) THEN "yes" ELSE "no"
      [] operator = <<">", "=">> ->
           IF cell # <<>> /\ LooseLessEq(value, cell[1]) THEN "yes" ELSE "no"
      [] operator = <<"<", "=">> ->
           IF cell # <<>> /\ LooseLessEq(cell[1], value) THEN "yes" ELSE "no"
      [] OTHER -> "throw"

\* filterRowsByCondition(table, rows, condition).  A condition is the text
\* <column><between><literal>, where <column> is a word and <between> is
\* what stands between the word and the literal, spaces removed.  The regex
\* (\w+)\s*([=><]+)\s*(.+) finds no match unless <between> starts with an
\* operator character; the operator is the run of operator characters and
\* the rest of the text is the value (the literals of the model are not
\* empty, so (.+) never takes a character back from the operator).  The
\* result is [error, rows]; error is "" when nothing was thrown.
filterRowsByCondition(table, rows, condition) ==
    LET operator == OperatorRun(condition.between)
        rest == SubSeq(condition.between, Len(operator) + 1, Len(condition.between))
        raw == Trim(rest \o condition.literal)
        ci == FindIndex(table.columns,
                        LAMBDA c : Lower(c.name) = Lower(condition.column))
        value == ParseLiteral(raw)
        verdict(row) == Compare(Cell(row, table.columns[ci].id), operator, value)
    IN IF operator = <<>> \/ raw = <<>>
       THEN [error |-> "Invalid condition", rows |-> <<>>]
       ELSE IF ci = 0
       THEN [error |-> "Column not found", rows |-> <<>>]
       ELSE IF \E i \in DOMAIN rows : verdict(rows[i]) = "throw"
       THEN [error |-> "Unsupported operator", rows |-> <<>>]
       ELSE [error |-> "",
             rows |-> SelectSeq(rows, LAMBDA row : verdict(row) = "yes")]

\* A statement without a WHERE clause.
NoWhere == <<>>

(* ------------------------ DML statement executors -------------------- *)

\* find() falling back on the first table when no name matches.
FindTableOrFirst(database, tableName) ==
    LET i == FindIndex(database.tables, LAMBDA t : Lower(t.name) = Lower(tableName))
    IN IF i = 0 /\ database.tables # <<>> THEN 1 ELSE i

\* find() comparing the names as they are written.
FindTableExact(database, tableName) ==
    FindIndex(database.tables, LAMBDA t : t.name = tableName)


\* find() behind an enforcement layer: a table is not found in a database
\* whose permission log ends with a REVOKE.
FindTableUnlessRevoked(database, tableName) ==
    IF /\ database.permissions # <<>>
       /\ database.permissions[Len(database.permissions)].action = "REVOKE"
    THEN 0
    ELSE FindIndex(database.tables, LAMBDA t : Lower(t.name) = Lower(tableName))

\* database.tables.find(t => t.name.toLowerCase() === tableName.toLowerCase())
FindTable(database, tableName) ==
    FindIndex(database.tables, LAMBDA t : Lower(t.name) = Lower(tableName))

\* columns.find(c => c.name.toLowerCase() === columnName.toLowerCase())
FindColumn(table, columnName) ==
    FindIndex(table.columns, LAMBDA c : Lower(c.name) = Lower(columnName))

\* databases.findIndex(db => db.id === database.id)
DbIndex(st, database) ==
    FindIndex(getDatabases(st), LAMBDA db : db.id = database.id)

\* databases[dbIndex].tables.findIndex(t => t.id === table.id)
TableIndex(st, database, table) ==
    FindIndex(getDatabases(st)[DbIndex(st, database)].tables,
              LAMBDA t : t.id = table.id)

\* executeSelectQuery(query, database).  q.wf says whether the statement
\* matches the SELECT regex; q.columns is the column list split at commas.
executeSelectQuery(st, q, database) ==
    IF ~q.wf THEN Throw(st, "SELECT", "Invalid SELECT query format")
    ELSE IF FindTable(database, q.table) = 0
    THEN Throw(st, "SELECT", "Table not found")
    ELSE
    LET table == database.tables[FindTable(database, q.table)]
        selectedColumns ==
            IF q.columns[1] = "*"
            THEN [i \in DOMAIN table.columns |-> table.columns[i].name]
            ELSE q.columns
        filtered ==
            IF q.where = NoWhere THEN [error |-> "", rows |-> table.rows]
            ELSE filterRowsByCondition(table, table.rows, q.where[1])
    IN IF \E i \in DOMAIN selectedColumns :
             /\ selectedColumns[i] # "*"
             /\ FindColumn(table, selectedColumns[i]) = 0
       THEN Throw(st, "SELECT", "Column not found")
       ELSE IF filtered.error # "" THEN Throw(st, "SELECT", filtered.error)
       ELSE [st EXCEPT !.result =
               [op |-> "SELECT", type |-> "rows", msg |-> "row(s) returned",
                n |-> Len(filtered.rows),
                columns |-> SelectSeq(table.columns,
                    LAMBDA col : Some(selectedColumns, LAMBDA n : n = col.name)),
                rows |-> filtered.rows]]

\* The row object that executeInsertQuery builds (query.js 221-229): the
\* columns are assigned in list order, so the last entry naming a column
\* wins, and an entry without a value assigns undefined, which
\* JSON.stringify leaves out of the stored row.
NewRow(table, columns, values, t) ==
    LET colId(i) == table.columns[FindColumn(table, columns[i])].id
        last(c) == CHOOSE i \in DOMAIN columns :
                      /\ colId(i) = c
                      /\ \A j \in DOMAIN columns : colId(j) = c => j <= i
        set == {c \in {colId(i) : i \in DOMAIN columns} : last(c) <= Len(values)}
    IN [id |-> t, cells |-> [c \in set |-> ParseLiteral(Trim(values[last(c)]))]]

\* What the group \((.+?)\) at the end of the INSERT regex captures from
\* "(<text>)": the lazy (.+?) takes the shortest non-empty text that a ")"
\* follows, so the capture ends before the first ")" after its first
\* character, which is the closing parenthesis only when the text holds none.
InsertRegexValues(text) ==
    LET closed == text \o <<")">>
        k == CHOOSE i \in 2..Len(closed) :
                /\ closed[i] = ")"
                /\ \A j \in 2..(i - 1) : closed[j] # ")"
    IN SubSeq(text, 1, k - 1)

\* executeInsertQuery with a test that the statement has as many values as
\* columns, which the source does not make.
executeInsertQueryCounted(st, q, database, t) ==
    LET s1 == pushSnapshot(st)
        values == Split(InsertRegexValues(q.values), ",")
        ti == FindTable(database, q.table)
        table == database.tables[ti]
        di == DbIndex(s1, database)
        dbs == getDatabases(s1)
    IN IF ~q.wf THEN Throw(s1, "INSERT", "Invalid INSERT query format")
       ELSE IF Len(values) # Len(q.columns)
       THEN Throw(s1, "INSERT", "Column count does not match value count")
       ELSE IF ti = 0 THEN Throw(s1, "INSERT", "Table not found")
       ELSE IF \E i \in DOMAIN q.columns : FindColumn(table, q.columns[i]) = 0
       THEN Throw(s1, "INSERT", "Column not found")
       ELSE Message(
              saveDatabases(s1,
                [dbs EXCEPT ![di].tables[TableIndex(s1, database, table)].rows =
                    Append(@, NewRow(table, q.columns, values, t))]),
              "INSERT", "row inserted successfully", 1)

\* executeInsertQuery(query, database); t is the reading of Date.now().
\* q.values is the text between the parentheses after VALUES (not empty);
\* match[3].split(',') cuts it at every comma, quoted or not.
executeInsertQuery(st, q, database, t) ==
    LET s1 == pushSnapshot(st)
        values == Split(InsertRegexValues(q.values), ",")
        ti == FindTable(database, q.table)
        table == database.tables[ti]
        di == DbIndex(s1, database)
        dbs == getDatabases(s1)
    IN IF ~q.wf THEN Throw(s1, "INSERT", "Invalid INSERT query format")
       ELSE IF ti = 0 THEN Throw(s1, "INSERT", "Table not found")
       ELSE IF \E i \in DOMAIN q.columns : FindColumn(table, q.columns[i]) = 0
       THEN Throw(s1, "INSERT", "Column not found")
       ELSE Message(
              saveDatabases(s1,
                [dbs EXCEPT ![di].tables[TableIndex(s1, database, table)].rows =
                    Append(@, NewRow(table, q.columns, values, t))]),
              "INSERT", "row inserted successfully", 1)

\* The locals of executeInsertQuery in a tab that is not running it.
IdleTab ==
    [pc |-> "idle", databases |-> <<>>, database |-> NoSelection,
     table |-> NoSelection, newRow |-> [id |-> NoSelection, cells |-> <<>>]]

\* executeQuery on an INSERT as far as `const databases = getDatabases()`:
\* the snapshot is pushed, the statement is checked against the selected
\* database and the row is built; tab holds the locals that the rest of the
\* handler uses, st the store and the tab's result pane.  A statement that is
\* rejected ends the handler here.
executeInsertQueryLoad(st, q, t) ==
    LET database == getDatabases(st)[getSelectedDatabase(st)]
        s1 == pushSnapshot(st)
        values == Split(InsertRegexValues(q.values), ",")
        ti == FindTable(database, q.table)
        table == database.tables[ti]
    IN IF getSelectedDatabase(st) = 0
       THEN [st |-> Throw(st, "", "No database selected"), tab |-> IdleTab]
       ELSE IF ~q.wf
       THEN [st |-> Throw(s1, "INSERT", "Invalid INSERT query format"), tab |-> IdleTab]
       ELSE IF ti = 0
       THEN [st |-> Throw(s1, "INSERT", "Table not found"), tab |-> IdleTab]
       ELSE IF \E i \in DOMAIN q.columns : FindColumn(table, q.columns[i]) = 0
       THEN [st |-> Throw(s1, "INSERT", "Column not found"), tab |-> IdleTab]
       ELSE [st |-> s1,
             tab |-> [pc |-> "loaded", databases |-> getDatabases(s1),
                      database |-> database.id, table |-> table.id,
                      newRow |-> NewRow(table, q.columns, values, t)]]

\* The rest of executeInsertQuery with the row replacing the rows of the
\* table, rows = [newRow] in the place of rows.push(newRow).
executeInsertQuerySaveReplacing(st, tab) ==
    LET dbs == tab.databases
        di == FindIndex(dbs, LAMBDA db : db.id = tab.database)
        ti == FindIndex(dbs[di].tables, LAMBDA x : x.id = tab.table)
    IN Message(saveDatabases(st, [dbs EXCEPT ![di].tables[ti].rows = <<tab.newRow>>]),
               "INSERT", "row inserted successfully", 1)

\* The rest of executeInsertQuery: the row is pushed onto the table in the
\* tab's copy of the DatabaseSet and the copy is saved.
executeInsertQuerySave(st, tab) ==
    LET dbs == tab.databases
        di == FindIndex(dbs, LAMBDA db : db.id = tab.database)
        ti == FindIndex(dbs[di].tables, LAMBDA x : x.id = tab.table)
    IN Message(saveDatabases(st, [dbs EXCEPT ![di].tables[ti].rows = Append(@, tab.newRow)]),
               "INSERT", "row inserted successfully", 1)

\* What /UPDATE\s+(\w+)\s+SET\s+(.+?)(?:\s+WHERE\s+(.+))?/i captures from
\* "UPDATE <table> SET <set>[ WHERE <condition>]".  The lazy (.+?) is
\* followed only by an optional group and the pattern has no end anchor, so
\* the match is complete as soon as (.+?) holds one character: group 2 is the
\* first character of <set>, and group 3 is the condition only when
\* " WHERE " follows that first character directly.
UpdateRegex(q) ==
    [setClause |-> SubSeq(q.set, 1, 1),
     whereClause |-> IF Len(q.set) = 1 THEN q.where ELSE NoWhere]

\* One entry of setExpressions (query.js 273-288): expr.split('=') gives the
\* column name and the value text; with no '=' in expr the value text is
\* undefined and value.startsWith throws a TypeError.
SetExpression(expr) ==
    LET parts == Split(expr, "=")
    IN IF Len(parts) < 2
       THEN [typeError |-> TRUE, columnName |-> Trim(parts[1]),
             value |-> ParseLiteral(<<>>)]
       ELSE [typeError |-> FALSE, columnName |-> Trim(parts[1]),
             value |-> ParseLiteral(Trim(parts[2]))]

\* The identifier a text spells: the identifiers of the model are single
\* characters, so any other text names no column.
NameOf(cs) == IF Len(cs) = 1 THEN cs[1] ELSE ""

\* databases[..].rows after the update loop (query.js 308-316): every row
\* whose id is the id of a row to update gets the assignments, in order.
UpdatedRows(table, rows, rowsToUpdate, setExpressions) ==
    LET hit(r) == Some(rowsToUpdate, LAMBDA u : u.id = r.id)
        colOf(e) == table.columns[FindColumn(table, NameOf(e.columnName))].id
        ids == {colOf(setExpressions[i]) : i \in DOMAIN setExpressions}
        lastOf(c) == CHOOSE i \in DOMAIN setExpressions :
                        /\ colOf(setExpressions[i]) = c
                        /\ \A j \in DOMAIN setExpressions :
                              colOf(setExpressions[j]) = c => j <= i
        \* rows.findIndex(r => r.id === row.id): the first row with that id
        first(i) == FindIndex(rows, LAMBDA r : r.id = rows[i].id) = i
    IN [i \in DOMAIN rows |->
          IF hit(rows[i]) /\ first(i)
          THEN [rows[i] EXCEPT !.cells =
                  [c \in DOMAIN @ \cup ids |->
                     IF c \in ids THEN setExpressions[lastOf(c)].value ELSE @[c]]]
          ELSE rows[i]]

\* executeUpdateQuery(query, database)
executeUpdateQuery(st, q, database) ==
    LET s1 == pushSnapshot(st)
        m == UpdateRegex(q)
        ti == FindTable(database, q.table)
        table == database.tables[ti]
        exprs == Split(Trim(m.setClause), ",")
        setExpressions == [i \in DOMAIN exprs |-> SetExpression(exprs[i])]
        filtered ==
            IF m.whereClause = NoWhere THEN [error |-> "", rows |-> table.rows]
            ELSE filterRowsByCondition(table, table.rows, m.whereClause[1])
        di == DbIndex(s1, database)
        dbs == getDatabases(s1)
    IN IF ~q.wf THEN Throw(s1, "UPDATE", "Invalid UPDATE query format")
       ELSE IF ti = 0 THEN Throw(s1, "UPDATE", "Table not found")
       ELSE IF \E i \in DOMAIN setExpressions : setExpressions[i].typeError
       THEN Throw(s1, "UPDATE", "TypeError")
       ELSE IF \E i \in DOMAIN setExpressions :
                  FindColumn(table, NameOf(setExpressions[i].columnName)) = 0
       THEN Throw(s1, "UPDATE", "Column not found")
       ELSE IF filtered.error # "" THEN Throw(s1, "UPDATE", filtered.error)
       ELSE Message(
              saveDatabases(s1,
                [dbs EXCEPT ![di].tables[TableIndex(s1, database, table)].rows =
                    UpdatedRows(table, @, filtered.rows, setExpressions)]),
              "UPDATE", "row(s) updated successfully", Len(filtered.rows))

\* executeDeleteQuery emptying the table when no row is to be deleted.
executeDeleteQueryAllWhenNone(st, q, database) ==
    LET s1 == pushSnapshot(st)
        ti == FindTable(database, q.table)
        table == database.tables[ti]
        rowsToDelete ==
            IF q.where = NoWhere THEN [error |-> "", rows |-> table.rows]
            ELSE filterRowsByCondition(table, table.rows, q.where[1])
        di == DbIndex(s1, database)
        dbs == getDatabases(s1)
    IN IF ~q.wf THEN Throw(s1, "DELETE", "Invalid DELETE query format")
       ELSE IF ti = 0 THEN Throw(s1, "DELETE", "Table not found")
       ELSE IF rowsToDelete.error # "" THEN Throw(s1, "DELETE", rowsToDelete.error)
       ELSE Message(
              saveDatabases(s1,
                [dbs EXCEPT ![di].tables[TableIndex(s1, database, table)].rows =
                    SelectSeq(@, LAMBDA row :
                        /\ rowsToDelete.rows # <<>>
                        /\ ~Some(rowsToDelete.rows, LAMBDA d : d.id = row.id))]),
              "DELETE", "row(s) deleted successfully", Len(rowsToDelete.rows))

\* executeDeleteQuery(query, database)
executeDeleteQuery(st, q, database) ==
    LET s1 == pushSnapshot(st)
        ti == FindTable(database, q.table)
        table == database.tables[ti]
        rowsToDelete ==
            IF q.where = NoWhere THEN [error |-> "", rows |-> table.rows]
            ELSE filterRowsByCondition(table, table.rows, q.where[1])
        di == DbIndex(s1, database)
        dbs == getDatabases(s1)
    IN IF ~q.wf THEN Throw(s1, "DELETE", "Invalid DELETE query format")
       ELSE IF ti = 0 THEN Throw(s1, "DELETE", "Table not found")
       ELSE IF rowsToDelete.error # "" THEN Throw(s1, "DELETE", rowsToDelete.error)
       ELSE Message(
              saveDatabases(s1,
                [dbs EXCEPT ![di].tables[TableIndex(s1, database, table)].rows =
                    SelectSeq(@, LAMBDA row :
                        ~Some(rowsToDelete.rows, LAMBDA d : d.id = row.id))]),
              "DELETE", "row(s) deleted successfully", Len(rowsToDelete.rows))

(* ------------------------ DDL statement executors -------------------- *)

\* An absent optional number (null in the column object).
Null == <<>>

LowerLetters ==
    <<"a", "b", "c", "d", "e", "f", "g", "h", "i", "j", "k", "l", "m",
      "n", "o", "p", "q", "r", "s", "t", "u", "v", "w", "x", "y", "z">>

UpperLetters ==
    <<"A", "B", "C", "D", "E", "F", "G", "H", "I", "J", "K", "L", "M",
      "N", "O", "P", "Q", "R", "S", "T", "U", "V", "W", "X", "Y", "Z">>

\* The characters of the class \w.
IsWordChar(c) ==
    \/ c \in Digits \/ c = "_"
    \/ \E i \in DOMAIN LowerLetters : c = LowerLetters[i] \/ c = UpperLetters[i]

\* String.prototype.toUpperCase, on characters.
ToUpperCase(cs) ==
    [i \in DOMAIN cs |->
        IF \E k \in DOMAIN LowerLetters : cs[i] = LowerLetters[k]
        THEN UpperLetters[CHOOSE k \in DOMAIN LowerLetters : cs[i] = LowerLetters[k]]
        ELSE cs[i]]

RECURSIVE Concat(_)
\* The string that a sequence of characters spells.
Concat(cs) == IF cs = <<>> THEN "" ELSE cs[1] \o Concat(Tail(cs))

RECURSIVE LeadingWord(_)
\* What ^(\w+) captures: the longest prefix of word characters (<<>> when
\* the regex does not match).
LeadingWord(cs) ==
    IF cs # <<>> /\ IsWordChar(cs[1]) THEN <<cs[1]>> \o LeadingWord(Tail(cs)) ELSE <<>>

\* String.prototype.includes
Includes(cs, sub) ==
    \E i \in 1..(Len(cs) - Len(sub) + 1) : SubSeq(cs, i, i + Len(sub) - 1) = sub

RECURSIVE SplitDefsKeepLast(_, _, _)
\* The loop of query.js 398-409 without the push at a comma: only the
\* definition after the last top-level comma is kept.
SplitDefsKeepLast(cs, depth, buf) ==
    LET piece == IF Trim(buf) # <<>> THEN <<Trim(buf)>> ELSE <<>>
        ch == cs[1]
        d == IF ch = "(" THEN depth + 1
             ELSE IF ch = ")" THEN (IF depth > 0 THEN depth - 1 ELSE 0)
             ELSE depth
    IN IF cs = <<>> THEN piece
       ELSE IF ch = "," /\ d = 0 THEN SplitDefsKeepLast(Tail(cs), d, <<>>)
       ELSE SplitDefsKeepLast(Tail(cs), d, Append(buf, ch))

RECURSIVE SplitDefsAtEveryComma(_, _, _)
\* The loop of query.js 398-409 without the test of the depth: the
\* definitions are cut at every comma, as defsRaw.split(',') would.
SplitDefsAtEveryComma(cs, depth, buf) ==
    LET piece == IF Trim(buf) # <<>> THEN <<Trim(buf)>> ELSE <<>>
        ch == cs[1]
    IN IF cs = <<>> THEN piece
       ELSE IF ch = "," THEN piece \o SplitDefsAtEveryComma(Tail(cs), depth, <<>>)
       ELSE SplitDefsAtEveryComma(Tail(cs), depth, Append(buf, ch))

RECURSIVE SplitDefs(_, _, _)
\* The loop of query.js 398-409 on the rest cs of defsRaw, at parenthesis
\* depth depth with buf collected so far: the definitions are cut at the
\* commas of depth 0, trimmed, and the empty ones are dropped.
SplitDefs(cs, depth, buf) ==
    LET piece == IF Trim(buf) # <<>> THEN <<Trim(buf)>> ELSE <<>>
        ch == cs[1]
        d == IF ch = "(" THEN depth + 1
             ELSE IF ch = ")" THEN (IF depth > 0 THEN depth - 1 ELSE 0)
             ELSE depth
    IN IF cs = <<>> THEN piece
       ELSE IF ch = "," /\ d = 0 THEN piece \o SplitDefs(Tail(cs), d, <<>>)
       ELSE SplitDefs(Tail(cs), d, Append(buf, ch))

\* parseInt(text, 10) on a trimmed text: the number its leading digits
\* spell, as <<n>>, and <<>> for NaN.
ParseInt(cs) ==
    LET k == IF \E i \in DOMAIN cs : cs[i] \notin Digits
             THEN (CHOOSE i \in DOMAIN cs :
                      cs[i] \notin Digits /\ \A j \in 1..(i - 1) : cs[j] \in Digits) - 1
             ELSE Len(cs)
    IN IF k = 0 THEN <<>> ELSE <<NumberOf(SubSeq(cs, 1, k))>>

\* What /^(\w+)(\s*\(([^)]+)\))?/ captures from the upper-cased type text:
\* the leading word, and the text between a following "(" and the first ")"
\* after it when at least one character stands between them.
TypeToken(upper) ==
    LET word == LeadingWord(upper)
        after == TrimLeft(SubSeq(upper, Len(word) + 1, Len(upper)))
        close == IF after # <<>> /\ after[1] = "(" /\ \E i \in 2..Len(after) : after[i] = ")"
                 THEN CHOOSE i \in 2..Len(after) :
                         after[i] = ")" /\ \A j \in 2..(i - 1) : after[j] # ")"
                 ELSE 0
    IN [matched |-> word # <<>>, base |-> Concat(word),
        args |-> IF close > 2
                 THEN LET parts == Split(SubSeq(after, 2, close - 1), ",")
                      IN [i \in DOMAIN parts |-> Trim(parts[i])]
                 ELSE <<>>]

\* parseSqlType(typeStr); isNull says that the function returns null.
parseSqlType(typeStr) ==
    LET raw == Trim(typeStr)
        tok == TypeToken(ToUpperCase(raw))
    IN [isNull |-> ~tok.matched,
        original |-> raw,
        baseType |->
           IF tok.base \in {"INT", "INTEGER", "BIGINT", "SMALLINT", "TINYINT"} THEN "number"
           ELSE IF tok.base \in {"DECIMAL", "NUMERIC", "FLOAT", "DOUBLE", "REAL"} THEN "number"
           ELSE IF tok.base \in {"CHAR", "NCHAR", "VARCHAR", "NVARCHAR", "TEXT", "STRING"}
           THEN "text"
           ELSE IF tok.base \in {"BOOL", "BOOLEAN"} THEN "boolean"
           ELSE IF tok.base = "DATE" THEN "date"
           ELSE IF tok.base \in {"DATETIME", "TIMESTAMP"} THEN "datetime"
           ELSE "text",
        length |-> IF Len(tok.args) = 1 THEN ParseInt(tok.args[1]) ELSE Null,
        precision |-> IF Len(tok.args) = 2 THEN ParseInt(tok.args[1]) ELSE Null,
        scale |-> IF Len(tok.args) = 2 THEN ParseInt(tok.args[2]) ELSE Null]

\* Date.now().toString() + i for a column: the decimal digits of the clock
\* reading followed by the digit of the 0-based position.
ColumnId(t, i) == 10 * t + i

\* The text that follows the column name in a definition:
\* colDef.replace(columnName, '').trim(), the name being the leading word.
TypeText(colDef) ==
    Trim(SubSeq(colDef, Len(LeadingWord(colDef)) + 1, Len(colDef)))

\* The error that the loop of query.js 418-426 throws on one column
\* definition, "" when it throws none.
ColumnDefError(colDef) ==
    IF LeadingWord(colDef) = <<>> THEN "Invalid column definition"
    ELSE IF TypeText(colDef) = <<>> THEN "Missing type for column"
    ELSE IF parseSqlType(TypeText(colDef)).isNull THEN "Invalid type for column"
    ELSE ""

\* One column object of executeCreateTableQuery (query.js 428-437); i is the
\* 1-based position of the definition.
NewColumn(colDef, t, i) ==
    LET parsed == parseSqlType(TypeText(colDef))
    IN [id |-> ColumnId(t, i - 1), name |-> Concat(LeadingWord(colDef)),
        type |-> parsed.baseType,
        originalType |-> parsed.original, length |-> parsed.length,
        precision |-> parsed.precision, scale |-> parsed.scale,
        isPrimaryKey |->
            Includes(ToUpperCase(colDef),
                     <<"P", "R", "I", "M", "A", "R", "Y", " ", "K", "E", "Y">>)]

\* executeCreateTableQuery(query, database).  q.defs is the text that the
\* group \((.+)\) captures: what stands between the first "(" of the
\* statement and its last ")".
executeCreateTableQuery(st, q, database, t) ==
    LET s1 == pushSnapshot(st)
        di == DbIndex(s1, database)
        dbs == getDatabases(s1)
        columnDefs == SplitDefs(Trim(q.defs), 0, <<>>)
        newTable == [id |-> t, name |-> q.table,
                     columns |-> [i \in DOMAIN columnDefs |-> NewColumn(columnDefs[i], t, i)],
                     rows |-> <<>>]
        bad == FindIndex(columnDefs, LAMBDA d : ColumnDefError(d) # "")
    IN IF ~q.wf THEN Throw(s1, "CREATE TABLE", "Invalid CREATE TABLE query format")
       ELSE IF FindTable(database, q.table) # 0
       THEN Throw(s1, "CREATE TABLE", "Table already exists")
       ELSE IF bad # 0
       THEN Throw(s1, "CREATE TABLE", ColumnDefError(columnDefs[bad]))
       ELSE Message(saveDatabases(s1, [dbs EXCEPT ![di].tables = Append(@, newTable)]),
                    "CREATE TABLE", "Table created successfully", 0)

\* The lookup of a database by name without the toLowerCase of the two
\* sides: d.name === dbName.
FindDatabaseExact(st, dbName) ==
    FindIndex(getDatabases(st), LAMBDA d : d.name = dbName)

\* databases.find(d => d.name.toLowerCase() === dbName.toLowerCase())
FindDatabase(st, dbName) ==
    FindIndex(getDatabases(st), LAMBDA d : Lower(d.name) = Lower(dbName))

\* executeCreateDatabaseQuery(query)
executeCreateDatabaseQuery(st, q, t) ==
    LET s1 == pushSnapshot(st)
        newDb == [id |-> t, name |-> q.name, tables |-> <<>>, permissions |-> <<>>]
    IN IF ~q.wf THEN Throw(st, "CREATE DATABASE", "Invalid CREATE DATABASE query")
       ELSE IF FindDatabase(st, q.name) # 0
       THEN IF q.ifNotExists
            THEN Message(st, "CREATE DATABASE", "Database already exists", 0)
            ELSE Throw(st, "CREATE DATABASE", "Database already exists")
       ELSE [Message(saveDatabases(s1, Append(getDatabases(st), newDb)),
                     "CREATE DATABASE", "Database created", 0)
             EXCEPT !.selected = newDb.id]

\* executeDropDatabaseQuery without the removeItem of the selection: the
\* id of the dropped database stays in 'selected_database'.
executeDropDatabaseQueryKeepSelection(st, q) ==
    LET s1 == pushSnapshot(st)
        db == getDatabases(st)[FindDatabase(st, q.name)]
        filtered == SelectSeq(getDatabases(st), LAMBDA d : d.id # db.id)
    IN IF ~q.wf THEN Throw(st, "DROP DATABASE", "Invalid DROP DATABASE query")
       ELSE IF FindDatabase(st, q.name) = 0
       THEN Throw(st, "DROP DATABASE", "Database not found")
       ELSE Message(saveDatabases(s1, filtered), "DROP DATABASE", "Database dropped", 0)

\* executeDropDatabaseQuery(query)
executeDropDatabaseQuery(st, q) ==
    LET s1 == pushSnapshot(st)
        db == getDatabases(st)[FindDatabase(st, q.name)]
        filtered == SelectSeq(getDatabases(st), LAMBDA d : d.id # db.id)
    IN IF ~q.wf THEN Throw(st, "DROP DATABASE", "Invalid DROP DATABASE query")
       ELSE IF FindDatabase(st, q.name) = 0
       THEN Throw(st, "DROP DATABASE", "Database not found")
       ELSE [Message(saveDatabases(s1, filtered), "DROP DATABASE", "Database dropped", 0)
             EXCEPT !.selected = IF @ = db.id THEN NoSelection ELSE @]

\* executeUseDatabaseQuery removing the selection before it looks the
\* database up.
executeUseDatabaseQueryEager(st, q) ==
    IF ~q.wf THEN Throw(st, "USE", "Invalid USE query")
    ELSE IF FindDatabase(st, q.name) = 0
    THEN [Throw(st, "USE", "Database not found") EXCEPT !.selected = NoSelection]
    ELSE [Message(st, "USE", "Using database", 0)
          EXCEPT !.selected = getDatabases(st)[FindDatabase(st, q.name)].id]


\* executeUseDatabaseQuery calling pushSnapshot before it sets the
\* selection, as the executors that change the DatabaseSet do.
executeUseDatabaseQueryPush(st, q) ==
    IF ~q.wf THEN Throw(st, "USE", "Invalid USE query")
    ELSE IF FindDatabase(st, q.name) = 0 THEN Throw(st, "USE", "Database not found")
    ELSE [Message(pushSnapshot(st), "USE", "Using database", 0)
          EXCEPT !.selected = getDatabases(st)[FindDatabase(st, q.name)].id]

\* executeUseDatabaseQuery(query)
executeUseDatabaseQuery(st, q) ==
    IF ~q.wf THEN Throw(st, "USE", "Invalid USE query")
    ELSE IF FindDatabase(st, q.name) = 0 THEN Throw(st, "USE", "Database not found")
    ELSE [Message(st, "USE", "Using database", 0)
          EXCEPT !.selected = getDatabases(st)[FindDatabase(st, q.name)].id]

\* executeDropTableQuery calling pushSnapshot first, as executeInsertQuery
\* does.
executeDropTableQueryPushFirst(st, q, database) ==
    LET s1 == pushSnapshot(st)
        table == database.tables[FindTable(database, q.table)]
        di == DbIndex(s1, database)
        dbs == getDatabases(s1)
    IN IF ~q.wf THEN Throw(s1, "DROP TABLE", "Invalid DROP TABLE query")
       ELSE IF FindTable(database, q.table) = 0
       THEN Throw(s1, "DROP TABLE", "Table not found")
       ELSE Message(
              saveDatabases(s1,
                [dbs EXCEPT ![di].tables = SelectSeq(@, LAMBDA x : x.id # table.id)]),
              "DROP TABLE", "Table dropped", 0)

\* executeDropTableQuery(query, database)
executeDropTableQuery(st, q, database) ==
    LET s1 == pushSnapshot(st)
        table == database.tables[FindTable(database, q.table)]
        di == DbIndex(s1, database)
        dbs == getDatabases(s1)
    IN IF ~q.wf THEN Throw(st, "DROP TABLE", "Invalid DROP TABLE query")
       ELSE IF FindTable(database, q.table) = 0
       THEN Throw(st, "DROP TABLE", "Table not found")
       ELSE Message(
              saveDatabases(s1,
                [dbs EXCEPT ![di].tables = SelectSeq(@, LAMBDA x : x.id # table.id)]),
              "DROP TABLE", "Table dropped", 0)

\* scopeType.toUpperCase() on the two keywords that the regex of GRANT and of
\* REVOKE admits, which it matches in any letter case.
ScopeToUpperCase(scopeType) ==
    CASE scopeType \in {"table", "Table"} -> "TABLE"
      [] scopeType \in {"database", "Database"} -> "DATABASE"
      [] OTHER -> scopeType

\* The permission event that GRANT and REVOKE append (query.js 561, 579).
PermissionEvent(action, q, t) ==
    [action |-> action, privilege |-> q.privilege,
     scopeType |-> ScopeToUpperCase(q.scopeType),
     name |-> q.name, user |-> q.user, at |-> t]

\* executeGrantQuery calling pushSnapshot after saveDatabases.
executeGrantQueryLatePush(st, q, database, t) ==
    LET di == DbIndex(st, database)
        dbs == getDatabases(st)
    IN IF ~q.wf THEN Throw(st, "GRANT", "Invalid GRANT query")
       ELSE Message(
              pushSnapshot(saveDatabases(st,
                [dbs EXCEPT ![di].permissions = Append(@, PermissionEvent("GRANT", q, t))])),
              "GRANT", "Granted", 0)

\* executeGrantQuery(query, database).  A database without meta is stored
\* here with an empty permission log, which is what line 560 makes of it.
executeGrantQuery(st, q, database, t) ==
    LET s1 == pushSnapshot(st)
        di == DbIndex(s1, database)
        dbs == getDatabases(s1)
    IN IF ~q.wf THEN Throw(st, "GRANT", "Invalid GRANT query")
       ELSE Message(
              saveDatabases(s1,
                [dbs EXCEPT ![di].permissions = Append(@, PermissionEvent("GRANT", q, t))]),
              "GRANT", "Granted", 0)


\* executeRevokeQuery with unshift in the place of push: the event goes to
\* the front of the log.
executeRevokeQueryUnshift(st, q, database, t) ==
    LET s1 == pushSnapshot(st)
        di == DbIndex(s1, database)
        dbs == getDatabases(s1)
    IN IF ~q.wf THEN Throw(st, "REVOKE", "Invalid REVOKE query")
       ELSE Message(
              saveDatabases(s1,
                [dbs EXCEPT ![di].permissions = <<PermissionEvent("REVOKE", q, t)>> \o @]),
              "REVOKE", "Revoked", 0)

\* executeRevokeQuery(query, database)
executeRevokeQuery(st, q, database, t) ==
    LET s1 == pushSnapshot(st)
        di == DbIndex(s1, database)
        dbs == getDatabases(s1)
    IN IF ~q.wf THEN Throw(st, "REVOKE", "Invalid REVOKE query")
       ELSE Message(
              saveDatabases(s1,
                [dbs EXCEPT ![di].permissions = Append(@, PermissionEvent("REVOKE", q, t))]),
              "REVOKE", "Revoked", 0)

(* ----------------------- transaction statements ----------------------- *)

\* executeBeginQuery pushing only when no transaction is open: a BEGIN inside
\* a transaction is a success that pushes nothing.
executeBeginQueryOnce(st) ==
    Message(IF st.snapshots = <<>> THEN pushSnapshot(st) ELSE st,
            "BEGIN", "Transaction started", 0)

\* executeBeginQuery()
executeBeginQuery(st) == Message(pushSnapshot(st), "BEGIN", "Transaction started", 0)

\* executeCommitQuery()
executeCommitQuery(st) == Message(clearSnapshots(st), "COMMIT", "Transaction committed", 0)

\* executeRollbackQuery without the test of the popped snapshot: the null
\* that popSnapshot returns for an empty stack is saved as the DatabaseSet.
executeRollbackQueryUnchecked(st) ==
    LET snapshot == IF st.snapshots = <<>> THEN <<>> ELSE Top(st.snapshots)
        s1 == saveDatabases(popSnapshot(st), snapshot)
    IN [Message(s1, "ROLLBACK", "Rolled back to previous state", 0)
        EXCEPT !.selected =
           IF @ # NoSelection /\ ~Some(snapshot, LAMBDA db : db.id = @)
           THEN NoSelection ELSE @]

\* executeRollbackQuery(): the popped snapshot replaces the DatabaseSet, and
\* a selection that names no database of the restored set is removed.
executeRollbackQuery(st) ==
    LET snapshot == Top(st.snapshots)
        s1 == saveDatabases(popSnapshot(st), snapshot)
    IN IF st.snapshots = <<>>
       THEN Message(popSnapshot(st), "ROLLBACK", "Nothing to rollback", 0)
       ELSE [Message(s1, "ROLLBACK", "Rolled back to previous state", 0)
             EXCEPT !.selected =
                IF @ # NoSelection /\ ~Some(snapshot, LAMBDA db : db.id = @)
                THEN NoSelection ELSE @]

(* ------------------------------ dispatch ------------------------------ *)

\* parseAndExecuteQuery(query, database): q.kind is the branch that the
\* startsWith chain takes.
parseAndExecuteQuery(st, q, database, t) ==
    CASE q.kind = "SELECT" -> executeSelectQuery(st, q, database)
      [] q.kind = "INSERT" -> executeInsertQuery(st, q, database, t)
      [] q.kind = "UPDATE" -> executeUpdateQuery(st, q, database)
      [] q.kind = "DELETE" -> executeDeleteQuery(st, q, database)
      [] q.kind = "CREATE TABLE" -> executeCreateTableQuery(st, q, database, t)
      [] q.kind = "CREATE DATABASE" -> executeCreateDatabaseQuery(st, q, t)
      [] q.kind = "DROP DATABASE" -> executeDropDatabaseQuery(st, q)
      [] q.kind = "USE" -> executeUseDatabaseQuery(st, q)
      [] q.kind = "DROP TABLE" -> executeDropTableQuery(st, q, database)
      [] q.kind = "GRANT" -> executeGrantQuery(st, q, database, t)
      [] q.kind = "REVOKE" -> executeRevokeQuery(st, q, database, t)
      [] q.kind = "BEGIN" -> executeBeginQuery(st)
      [] q.kind = "COMMIT" -> executeCommitQuery(st)
      [] q.kind = "ROLLBACK" -> executeRollbackQuery(st)
      [] OTHER -> Throw(st, q.kind, "Unsupported query type")

\* The database that executeQuery hands to parseAndExecuteQuery.
selectedDb(st) == getDatabases(st)[getSelectedDatabase(st)]

\* executeQuery asking for a selected database only where the executor takes
\* one: CREATE DATABASE, DROP DATABASE, USE, BEGIN, COMMIT and ROLLBACK are
\* dispatched without a selection.
executeQueryWithWhereNeeded(st, q, r) ==
    IF q.kind = "" THEN Throw(st, "", "Query is empty")
    ELSE IF q.kind \in {"CREATE DATABASE", "DROP DATABASE", "USE",
                        "BEGIN", "COMMIT", "ROLLBACK"} THEN r
    ELSE IF getSelectedDatabase(st) = 0 THEN Throw(st, "", "No database selected")
    ELSE r

\* executeQuery() around the outcome r of the statement's executor: the
\* handler returns before it parses when no database is selected or the
\* statement is empty.
executeQueryWith(st, q, r) ==
    IF getSelectedDatabase(st) = 0 THEN Throw(st, "", "No database selected")
    ELSE IF q.kind = "" THEN Throw(st, "", "Query is empty")
    ELSE r

\* executeQuery(): the click handler of #execute-query-btn on the statement
\* q in #sql-query; t is what Date.now() returns during the handler.
executeQuery(st, q, t) ==
    executeQueryWith(st, q, parseAndExecuteQuery(st, q, selectedDb(st), t))

(* --------------------- the database list's buttons -------------------- *)

\* createDatabase(): the click handler of #create-db-btn with dbName the
\* answer to the prompt; t is the reading of Date.now().
createDatabase(st, dbName, t) ==
    LET dbs == getDatabases(st)
        newDb == [id |-> t, name |-> dbName, tables |-> <<>>, permissions |-> <<>>]
    IN IF dbName = "" THEN st
       ELSE IF Some(dbs, LAMBDA db : db.name = dbName) THEN st
       ELSE [saveDatabases(st, Append(dbs, newDb)) EXCEPT !.selected = newDb.id]

\* selectDatabase(dbId): the Select button of a list item.
selectDatabase(st, dbId) ==
    IF ~Some(getDatabases(st), LAMBDA db : db.id = dbId) THEN st
    ELSE [st EXCEPT !.selected = dbId]

\* deleteDatabase(dbId): the Delete button of a list item, confirmed.
deleteDatabase(st, dbId) ==
    [saveDatabases(st, SelectSeq(getDatabases(st), LAMBDA db : db.id # dbId))
     EXCEPT !.selected = IF @ = dbId THEN NoSelection ELSE @]

(* --------------------------- the row forms ---------------------------- *)

\* coerceValueByType(rawValue, column) of main.js on the text of a form
\* input.  The columns of the model are of type text, number or boolean;
\* the date and datetime branches, which parse with Date, are not taken.
coerceValueByType(rawValue, column) ==
    LET v == Trim(rawValue)
    IN CASE column.type = "number" ->
              IF IsNumericText(v) THEN [k |-> "num", v |-> DigitsOf(NumberOf(v))]
              ELSE [k |-> "num", v |-> <<"0">>]
         [] column.type = "boolean" ->
              IF v \in {<<"1">>, <<"t", "r", "u", "e">>, <<"y", "e", "s">>, <<"y">>, <<"o", "n">>}
              THEN [k |-> "bool", v |-> <<"t", "r", "u", "e">>]
              ELSE [k |-> "bool", v |-> <<"f", "a", "l", "s", "e">>]
         [] OTHER -> [k |-> "str", v |-> v]

\* The value that the submit handlers of addRow and editRow store for one
\* column (main.js 727-731, 793-797): the coerced input, cut to col.length
\* characters when the column is a text column, col.length is truthy
\* (neither null nor 0) and the text is longer.
FormValue(raw, col) ==
    LET v == coerceValueByType(raw, col)
    IN IF /\ col.type = "text"
          /\ col.length # Null /\ col.length[1] # 0
          /\ v.k = "str" /\ Len(v.v) > col.length[1]
       THEN [v EXCEPT !.v = SubSeq(@, 1, col.length[1])]
       ELSE v

\* The cells that a submit handler assigns: one for every column of the
\* table, from the input of that column.
FormCells(table, raws) ==
    [c \in {table.columns[i].id : i \in DOMAIN table.columns} |->
        FormValue(raws[c],
                  table.columns[CHOOSE i \in DOMAIN table.columns : table.columns[i].id = c])]

\* addRow(tableId, modal) of main.js with the form submitted: raws gives the
\* text of the input of each column and t is the reading of Date.now().
addRow(st, tableId, raws, t) ==
    LET si == getSelectedDatabase(st)
        database == getDatabases(st)[si]
        ti == FindIndex(database.tables, LAMBDA tb : tb.id = tableId)
        table == database.tables[ti]
        newRow == [id |-> t, cells |-> FormCells(table, raws)]
        dbs == getDatabases(st)
        di == DbIndex(st, database)
    IN IF si = 0 THEN st
       ELSE IF ti = 0 THEN st
       ELSE saveDatabases(st,
              [dbs EXCEPT ![di].tables[TableIndex(st, database, table)].rows =
                  Append(@, newRow)])

\* editRow(tableId, rowId, modal) of main.js with the form submitted: the
\* first row of that id gets a cell for every column and keeps its others.
editRow(st, tableId, rowId, raws) ==
    LET si == getSelectedDatabase(st)
        database == getDatabases(st)[si]
        ti == FindIndex(database.tables, LAMBDA tb : tb.id = tableId)
        table == database.tables[ti]
        ri == FindIndex(table.rows, LAMBDA r : r.id = rowId)
        row == table.rows[ri]
        cells == FormCells(table, raws)
        edited == [row EXCEPT !.cells =
                     [c \in DOMAIN @ \cup DOMAIN cells |->
                        IF c \in DOMAIN cells THEN cells[c] ELSE @[c]]]
        dbs == getDatabases(st)
        di == DbIndex(st, database)
    IN IF si = 0 THEN st
       ELSE IF ti = 0 THEN st
       ELSE IF ri = 0 THEN st
       ELSE saveDatabases(st,
              [dbs EXCEPT ![di].tables[TableIndex(st, database, table)].rows[ri] = edited])

\* deleteRow(tableId, rowId, modal) of main.js, confirmed: every row of
\* that id leaves the table.
deleteRow(st, tableId, rowId) ==
    LET si == getSelectedDatabase(st)
        database == getDatabases(st)[si]
        dbs == getDatabases(st)
        di == DbIndex(st, database)
        ti == FindIndex(dbs[di].tables, LAMBDA tb : tb.id = tableId)
    IN IF si = 0 THEN st
       ELSE IF ti = 0 THEN st
       ELSE saveDatabases(st,
              [dbs EXCEPT ![di].tables[ti].rows = SelectSeq(@, LAMBDA r : r.id # rowId)])


(* -------------------------- the table forms --------------------------- *)

\* parseSqlType(original) of main.js on the text of a type input.  Its
\* regex /^(\w+)\s*\(([^)]+)\)$/ wants the ")" at the end of the text, and
\* without a match the base is the whole upper-cased text.
parseSqlTypeOfForms(original) ==
    LET raw == Trim(original)
        upper == ToUpperCase(raw)
        word == LeadingWord(upper)
        after == TrimLeft(SubSeq(upper, Len(word) + 1, Len(upper)))
        paren == /\ word # <<>> /\ Len(after) >= 3
                 /\ after[1] = "(" /\ after[Len(after)] = ")"
                 /\ \A i \in 2..(Len(after) - 1) : after[i] # ")"
        base == IF paren THEN Concat(word) ELSE Concat(upper)
        split == Split(SubSeq(after, 2, Len(after) - 1), ",")
        parts == IF paren THEN [i \in DOMAIN split |-> Trim(split[i])] ELSE <<>>
    IN [original |-> raw,
        baseType |->
           IF base \in {"INT", "INTEGER", "BIGINT", "SMALLINT", "TINYINT"} THEN "number"
           ELSE IF base \in {"DECIMAL", "NUMERIC", "FLOAT", "DOUBLE", "REAL"} THEN "number"
           ELSE IF base \in {"CHAR", "NCHAR", "VARCHAR", "NVARCHAR", "TEXT", "STRING"}
           THEN "text"
           ELSE IF base \in {"BOOL", "BOOLEAN"} THEN "boolean"
           ELSE IF base = "DATE" THEN "date"
           ELSE IF base \in {"DATETIME", "TIMESTAMP"} THEN "datetime"
           ELSE "text",
        length |-> IF Len(parts) = 1 THEN ParseInt(parts[1]) ELSE Null,
        precision |-> IF Len(parts) = 2 THEN ParseInt(parts[1]) ELSE Null,
        scale |-> IF Len(parts) = 2 THEN ParseInt(parts[2]) ELSE Null]

\* x || null for a parsed integer x: 0 is falsy.
OrNull(x) == IF x = <<0>> THEN Null ELSE x

\* The column object that the forms build from a name input and a type
\* input (main.js 945-954 and 1142-1151).
FormColumn(id, field) ==
    LET parsed == parseSqlTypeOfForms(field.type)
    IN [id |-> id, name |-> field.name, type |-> parsed.baseType,
        originalType |-> parsed.original, length |-> OrNull(parsed.length),
        precision |-> OrNull(parsed.precision), scale |-> OrNull(parsed.scale),
        isPrimaryKey |-> field.pk]

\* The submit handler of openCreateTableModal: tableName is the trimmed
\* name input, fields the trimmed name and type inputs and the checkbox of
\* each column, t the reading of Date.now().
openCreateTableModal(st, tableName, fields, t) ==
    LET di == getSelectedDatabase(st)
        dbs == getDatabases(st)
        newTable == [id |-> t, name |-> tableName,
                     columns |-> [i \in DOMAIN fields |->
                                     FormColumn(ColumnId(t, i - 1), fields[i])],
                     rows |-> <<>>]
    IN IF di = 0 \/ tableName = "" THEN st
       ELSE IF Some(dbs[di].tables, LAMBDA x : x.name = tableName) THEN st
       ELSE IF \E i \in DOMAIN fields : fields[i].name = "" \/ Trim(fields[i].type) = <<>>
       THEN st
       ELSE saveDatabases(st, [dbs EXCEPT ![di].tables = Append(@, newTable)])

\* deleteTable with a pushSnapshot before the change, as executeDropTableQuery
\* has.
deleteTablePush(st, tableId) ==
    LET s1 == pushSnapshot(st)
        di == getSelectedDatabase(s1)
        dbs == getDatabases(s1)
    IN IF di = 0 THEN st
       ELSE saveDatabases(s1, [dbs EXCEPT ![di].tables = SelectSeq(@, LAMBDA x : x.id # tableId)])

\* deleteTable(tableId) of main.js, confirmed: every table of that id leaves
\* the selected database.
deleteTable(st, tableId) ==
    LET di == getSelectedDatabase(st)
        dbs == getDatabases(st)
    IN IF di = 0 THEN st
       ELSE saveDatabases(st, [dbs EXCEPT ![di].tables = SelectSeq(@, LAMBDA x : x.id # tableId)])

\* The submit handler of openRenameTableModal for the table tableId of the
\* selected database; newName is the trimmed input.
openRenameTableModal(st, tableId, newName) ==
    LET di == getSelectedDatabase(st)
        dbs == getDatabases(st)
        ti == FindIndex(dbs[di].tables, LAMBDA x : x.id = tableId)
    IN IF di = 0 THEN st
       ELSE IF ti = 0 \/ newName = "" THEN st
       ELSE IF Some(dbs[di].tables,
                    LAMBDA x : Lower(x.name) = Lower(newName) /\ x.id # tableId)
       THEN st
       ELSE saveDatabases(st, [dbs EXCEPT ![di].tables[ti].name = newName])

\* uniqueTableName(db, base) for a base of word characters: base, or base
\* with the first suffix _1, _2, ... that gives a name no table has.
uniqueTableName(db, base) ==
    LET suffixes == <<"", "_1", "_2", "_3">>
        taken(c) == Some(db.tables, LAMBDA x : Lower(x.name) = Lower(c))
        k == CHOOSE i \in DOMAIN suffixes :
                /\ ~taken(base \o suffixes[i])
                /\ \A j \in 1..(i - 1) : taken(base \o suffixes[j])
    IN base \o suffixes[k]

\* Date.now().toString() + '_' + i, which no id made of digits equals.
ImportColumnId(t, i) == 0 - (10 * t + i + 1)

\* createTableFromImportedData for a file of one header line: the table
\* gets a column for each header, of the type number that
\* inferTypeFromSamples gives without samples, and no rows.
createTableFromImportedData(st, baseName, headers, t) ==
    LET di == getSelectedDatabase(st)
        dbs == getDatabases(st)
        newTable == [id |-> t, name |-> uniqueTableName(dbs[di], baseName),
                     columns |-> [i \in DOMAIN headers |->
                        [id |-> ImportColumnId(t, i - 1), name |-> headers[i],
                         type |-> "number",
                         originalType |-> <<"N", "U", "M", "B", "E", "R">>,
                         length |-> Null, precision |-> Null, scale |-> Null,
                         isPrimaryKey |-> (i = 1)]],
                     rows |-> <<>>]
    IN IF di = 0 THEN st
       ELSE saveDatabases(st, [dbs EXCEPT ![di].tables = Append(@, newTable)])


\* Date.now().toString() + Math.random().toString(36).slice(2) for the
\* column of the grid at position i: no id made of digits equals it, and
\* the random parts of two grids are taken to differ.
RandomColumnId(t, i) == 0 - (1000 + 10 * t + i)

\* The cell that the submit handler of openManageColumnsModal gives a row r
\* for the new column col (main.js 1161-1165): the value of the old column
\* of that name, or else of that id, coerced to the type of col; the empty
\* text when there is no such column; null when the row lacks the cell.
RebuiltCell(existing, r, col) ==
    LET byName == FindIndex(existing.columns, LAMBDA c : Lower(c.name) = Lower(col.name))
        byId == FindIndex(existing.columns, LAMBDA c : c.id = col.id)
        prev == IF byName # 0 THEN byName ELSE byId
    IN IF prev = 0 THEN coerceValueByType(<<>>, col)
       ELSE IF existing.columns[prev].id \notin DOMAIN r.cells
       THEN [k |-> "null", v |-> <<>>]
       ELSE coerceValueByType(r.cells[existing.columns[prev].id].v, col)

\* The columns that the submit handler of openManageColumnsModal builds
\* from the lines of the form (main.js 1129-1152): a line without a name or
\* without a type is skipped, a line of an old column keeps the id of the
\* column, and a new line gets an id of its own.
ManagedColumns(existing, grids, t) ==
    LET filled == SelectSeq([i \in DOMAIN grids |->
                                [colId |-> grids[i].colId, name |-> grids[i].name,
                                 type |-> grids[i].type, pk |-> grids[i].pk, pos |-> i]],
                            LAMBDA g : g.name # "" /\ Trim(g.type) # <<>>)
    IN [i \in DOMAIN filled |->
           FormColumn(IF Some(existing.columns, LAMBDA c : c.id = filled[i].colId)
                      THEN filled[i].colId
                      ELSE RandomColumnId(t, filled[i].pos),
                      filled[i])]

\* The rows of the table for its new columns (main.js 1158-1167).
RebuiltRows(existing, newColumns) ==
    [k \in DOMAIN existing.rows |->
        [id |-> existing.rows[k].id,
         cells |-> [c \in {newColumns[i].id : i \in DOMAIN newColumns} |->
            RebuiltCell(existing, existing.rows[k],
                        newColumns[CHOOSE i \in DOMAIN newColumns : newColumns[i].id = c])]]]

\* The end of the submit handler of openManageColumnsModal (main.js
\* 1153-1170) for the table at index ti of the database at index di: the
\* new columns are refused when two of them have the same name ignoring
\* case, and saved with the rebuilt rows otherwise.
SaveManagedColumns(st, di, ti, newColumns) ==
    IF Cardinality({Lower(newColumns[i].name) : i \in DOMAIN newColumns}) # Len(newColumns)
    THEN st
    ELSE saveDatabases(st,
           [getDatabases(st) EXCEPT
               ![di].tables[ti].columns = newColumns,
               ![di].tables[ti].rows = RebuiltRows(getDatabases(st)[di].tables[ti], newColumns)])

\* The submit handler of openManageColumnsModal for the table tableId of the
\* selected database.  grids holds, for each line of the form, the id of
\* the column it was made for (0 for a line that the Add column button
\* made) and its trimmed name and type inputs and its checkbox.
openManageColumnsModal(st, tableId, grids, t) ==
    IF getSelectedDatabase(st) = 0 THEN st
    ELSE IF ~Some(selectedDb(st).tables, LAMBDA x : x.id = tableId) THEN st
    ELSE SaveManagedColumns(st, getSelectedDatabase(st),
            FindIndex(selectedDb(st).tables, LAMBDA x : x.id = tableId),
            ManagedColumns(
               selectedDb(st).tables[FindIndex(selectedDb(st).tables, LAMBDA x : x.id = tableId)],
               grids, t))

(* ------------------------------ inputs -------------------------------- *)

\* The names that CREATE DATABASE and the create button give a database, and
\* the names that CREATE TABLE gives a table: both refuse a name in use, so
\* these sets bound the number of databases and of tables per database.
DatabaseNames == {"d", "e"}
TableNames == {"t"}

\* A statement that starts with the keyword of kind and does not match the
\* regex of its executor.
Malformed(kind) == [kind |-> kind, wf |-> FALSE]

\* WHERE a = 5
WhereA5 == <<[column |-> "a", between |-> <<"=">>, literal |-> <<"5">>]>>
\* WHERE a == 5: the regex accepts ==, the switch has no case for it
WhereBadOp == <<[column |-> "a", between |-> <<"=", "=">>, literal |-> <<"5">>]>>
\* WHERE a ! 5: no operator character after the column
WhereNoOp == <<[column |-> "a", between |-> <<"!">>, literal |-> <<"5">>]>>
\* WHERE b = 5
WhereB5 == <<[column |-> "b", between |-> <<"=">>, literal |-> <<"5">>]>>

SelectStmt(table, columns, where) ==
    [kind |-> "SELECT", wf |-> TRUE, table |-> table, columns |-> columns,
     where |-> where]

SelectStmts ==
    {Malformed("SELECT"),
     SelectStmt("t", <<"*">>, NoWhere), SelectStmt("T", <<"a">>, WhereA5),
     SelectStmt("t", <<"b">>, NoWhere), SelectStmt("t", <<"*">>, WhereBadOp),
     SelectStmt("t", <<"*">>, WhereNoOp), SelectStmt("t", <<"*">>, WhereB5),
     SelectStmt("u", <<"*">>, NoWhere)}

InsertStmt(table, columns, values) ==
    [kind |-> "INSERT", wf |-> TRUE, table |-> table, columns |-> columns,
     values |-> values]

InsertStmts ==
    {Malformed("INSERT"),
     InsertStmt("T", <<"A">>, <<"5">>),
     InsertStmt("t", <<"b">>, <<"5">>), InsertStmt("u", <<"a">>, <<"5">>)}

UpdateStmt(table, set, where) ==
    [kind |-> "UPDATE", wf |-> TRUE, table |-> table, set |-> set, where |-> where]

\* UPDATE t SET a=6 WHERE a=5, SET a = 6, SET =6, SET a WHERE a=5, and
\* UPDATE u SET a=6
UpdateStmts ==
    {Malformed("UPDATE"),
     UpdateStmt("t", <<"a", "=", "6">>, WhereA5),
     UpdateStmt("t", <<"a", " ", "=", " ", "6">>, NoWhere),
     UpdateStmt("t", <<"=", "6">>, NoWhere),
     UpdateStmt("t", <<"a">>, WhereA5),
     UpdateStmt("u", <<"a", "=", "6">>, NoWhere)}

DeleteStmt(table, where) ==
    [kind |-> "DELETE", wf |-> TRUE, table |-> table, where |-> where]

DeleteStmts ==
    {Malformed("DELETE"),
     DeleteStmt("t", NoWhere), DeleteStmt("T", WhereA5), DeleteStmt("t", WhereBadOp),
     DeleteStmt("t", WhereB5), DeleteStmt("u", NoWhere)}

CreateTableStmt(table, defs) ==
    [kind |-> "CREATE TABLE", wf |-> TRUE, table |-> table, defs |-> defs]

\* The column lists "a INT" and "a" (a definition without a type).
DefsAInt == <<"a", " ", "I", "N", "T">>
DefsA == <<"a">>

\* CREATE TABLE t (a INT) and CREATE TABLE t (a)
CreateTableStmts ==
    {Malformed("CREATE TABLE")} \cup
    {CreateTableStmt(n, defs) : n \in TableNames, defs \in {DefsAInt, DefsA}}

\* The column lists "a VARCHAR(2)" and "a VARCHAR(0)".
DefsAVarchar2 == <<"a", " ", "V", "A", "R", "C", "H", "A", "R", "(", "2", ")">>
DefsAVarchar0 == <<"a", " ", "V", "A", "R", "C", "H", "A", "R", "(", "0", ")">>

\* The column list "a VARCHAR(2), b INT".
DefsAVarchar2BInt == DefsAVarchar2 \o <<",", " ", "b", " ", "I", "N", "T">>

\* CREATE TABLE t (a VARCHAR(2)), t (a VARCHAR(0)) and t (a VARCHAR(2), b INT)
VarcharTableStmts ==
    {CreateTableStmt("t", defs) : defs \in {DefsAVarchar2, DefsAVarchar0, DefsAVarchar2BInt}}

\* What is typed into an input of a row form: "x", "xyz", "xyz " and "7".
FormTexts == {<<"x">>, <<"x", "y", "z">>, <<"x", "y", "z", " ">>, <<"7">>}


\* a INT, A INT
DefsAIntUpperAInt == <<"a", " ", "I", "N", "T", ",", " ", "A", " ", "I", "N", "T">>

\* CREATE TABLE statements for tables t and u with one column.
SchemaTableStmts == {CreateTableStmt(n, DefsAInt) : n \in {"t", "u"}}

\* CREATE TABLE statements for a table t with one column and with two
\* columns named a and A.
SchemaColumnStmts == {CreateTableStmt("t", defs) : defs \in {DefsAInt, DefsAIntUpperAInt}}

\* The name input, the type input and the checkbox of one column in a form.
Field(name) == [name |-> name, type |-> <<"I", "N", "T">>, pk |-> FALSE]

\* What is typed into the create-table form: the table name, and one column
\* or two columns whose names differ in case only.
FormTableNames == {"t", "T"}
FormFieldLists == {<<Field("a")>>, <<Field("a"), Field("A")>>}

\* What is typed into the rename-table form.
RenameNames == {"T", "u"}

\* An imported file: its name without the extension, and its header line.
ImportBaseNames == {"t"}
ImportHeaders == {<<"a">>}

\* The lines of the manage-columns form of a table when it is submitted: the
\* line of each column with its type as it was, the first one under the name
\* first, and after them the lines in added, which the Add column button
\* made.
Grids(table, first, added) ==
    [i \in DOMAIN table.columns |->
        [colId |-> table.columns[i].id,
         name |-> IF i = 1 THEN first ELSE table.columns[i].name,
         type |-> table.columns[i].originalType,
         pk |-> table.columns[i].isPrimaryKey]]
    \o [i \in DOMAIN added |->
        [colId |-> 0, name |-> added[i], type |-> <<"I", "N", "T">>, pk |-> FALSE]]

GridFirstNames == {"a", "b"}
GridAddedNames == {<<>>, <<"A">>}

CreateDatabaseStmts ==
    {Malformed("CREATE DATABASE")} \cup
    [kind : {"CREATE DATABASE"}, wf : {TRUE}, name : DatabaseNames,
     ifNotExists : BOOLEAN]

DropDatabaseStmts ==
    {Malformed("DROP DATABASE")} \cup
    [kind : {"DROP DATABASE"}, wf : {TRUE}, name : DatabaseNames]

UseStmts ==
    {Malformed("USE")} \cup [kind : {"USE"}, wf : {TRUE}, name : DatabaseNames]

DropTableStmts ==
    {Malformed("DROP TABLE")} \cup
    [kind : {"DROP TABLE"}, wf : {TRUE}, table : {"t", "u"}]

GrantStmts ==
    {Malformed("GRANT")} \cup
    [kind : {"GRANT"}, wf : {TRUE}, privilege : {"SELECT"}, scopeType : {"TABLE"},
     name : {"t"}, user : {"bob"}]

RevokeStmts ==
    {Malformed("REVOKE")} \cup
    [kind : {"REVOKE"}, wf : {TRUE}, privilege : {"SELECT"}, scopeType : {"TABLE"},
     name : {"t"}, user : {"bob"}]

BeginStmt == [kind |-> "BEGIN"]
CommitStmt == [kind |-> "COMMIT"]
RollbackStmt == [kind |-> "ROLLBACK"]
\* The empty statement and one with an unsupported leading keyword.
OtherStmts == {[kind |-> ""], [kind |-> "ALTER"]}

\* The nine kinds whose executors call pushSnapshot and saveDatabases.
MutatingKinds ==
    {"INSERT", "UPDATE", "DELETE", "CREATE TABLE", "CREATE DATABASE",
     "DROP TABLE", "DROP DATABASE", "GRANT", "REVOKE"}

\* The kinds whose executors read the clock.
ClockKinds == {"INSERT", "CREATE TABLE", "CREATE DATABASE", "GRANT", "REVOKE"}

\* Single column definitions as a statement writes them, with the name and
\* the length, precision and scale that each declares: "a DECIMAL(10,2)",
\* "b INT", "c NUMERIC(5, 1)", "d VARCHAR(3)", and the blank definition " ".
ColumnPieces ==
    {[text |-> <<"a", " ", "D", "E", "C", "I", "M", "A", "L", "(", "1", "0", ",", "2", ")">>,
      name |-> "a", length |-> <<>>, precision |-> <<10>>, scale |-> <<2>>],
     [text |-> <<"b", " ", "I", "N", "T">>,
      name |-> "b", length |-> <<>>, precision |-> <<>>, scale |-> <<>>],
     [text |-> <<"c", " ", "N", "U", "M", "E", "R", "I", "C", "(", "5", ",", " ", "1", ")">>,
      name |-> "c", length |-> <<>>, precision |-> <<5>>, scale |-> <<1>>],
     [text |-> <<"d", " ", "V", "A", "R", "C", "H", "A", "R", "(", "3", ")">>,
      name |-> "d", length |-> <<3>>, precision |-> <<>>, scale |-> <<>>],
     [text |-> <<" ">>,
      name |-> "", length |-> <<>>, precision |-> <<>>, scale |-> <<>>]}

\* The lists of up to n definitions.
PieceLists(n) == UNION {[1..k -> ColumnPieces] : k \in 1..n}

RECURSIVE JoinPieces(_)
\* The column list that a list of definitions spells: the texts with a comma
\* between them.
JoinPieces(list) ==
    IF Len(list) = 1 THEN list[1].text
    ELSE list[1].text \o <<",">> \o JoinPieces(Tail(list))

\* CREATE TABLE t (<list>) for the lists of one and of two definitions.
DeclStmts == {CreateTableStmt("t", JoinPieces(list)) : list \in PieceLists(2)}

(* ------------------------------ actions ------------------------------- *)

\* The readings Date.now() can give after the reading now: the same
\* millisecond or a later one.
Readings == {t \in {now, now + 1} : t <= MaxClock}

\* The number of tables, of rows and of permission events in a DatabaseSet.
TableCount(dbs) ==
    Cardinality(UNION {{i} \X DOMAIN dbs[i].tables : i \in DOMAIN dbs})
RowCount(dbs) ==
    Cardinality(UNION {UNION {{<<i, j>>} \X DOMAIN dbs[i].tables[j].rows :
                                 j \in DOMAIN dbs[i].tables} : i \in DOMAIN dbs})
PermissionCount(dbs) ==
    Cardinality(UNION {{i} \X DOMAIN dbs[i].permissions : i \in DOMAIN dbs})

\* The number of databases, tables, rows and permission events in a
\* DatabaseSet.
ObjectCount(dbs) ==
    Len(dbs) + TableCount(dbs) + RowCount(dbs) + PermissionCount(dbs)

\* Whether executing q from st stays within the bounds of the model.
WithinBounds(st, q) ==
    /\ Len(st.snapshots) < MaxSnap
    /\ q.kind \in ClockKinds => ObjectCount(st.databases) < MaxObjects

\* A statement of a mutating kind that ran to its saveDatabases.
Mutated(r) ==
    /\ r.result.op \in MutatingKinds
    /\ r.result.type = "message"
    /\ r.result.msg # "Database already exists"

\* hist is the DatabaseSet just before the most recent mutating statement
\* that succeeded since the last COMMIT or ROLLBACK, as <<set>>, and <<>>
\* when there is none.  It records the run; no handler reads it.
HistAfter(st, q, r) ==
    IF getSelectedDatabase(st) = 0 THEN hist
    ELSE IF Mutated(r) THEN <<st.databases>>
    ELSE IF q.kind \in {"COMMIT", "ROLLBACK"} THEN <<>>
    ELSE hist

\* A handler of the database list; it leaves #query-results and the
\* snapshot stack alone.
Apply(r, t) ==
    /\ databases' = r.databases
    /\ selected' = r.selected
    /\ now' = t
    /\ UNCHANGED <<snapshots, result, hist, callers>>

\* The user submits a statement with the Execute button: one action for
\* each branch of the startsWith chain of parseAndExecuteQuery, on the
\* statements S that take the branch.  Each is executeQuery with the branch
\* already chosen.
Select(S) ==
    \E q \in S : \E t \in {now} :
        \E r \in {executeQueryWith(Store, q, executeSelectQuery(Store, q, selectedDb(Store)))} :
           /\ WithinBounds(Store, q)
           /\ databases' = r.databases /\ snapshots' = r.snapshots
           /\ selected' = r.selected /\ result' = r.result
           /\ now' = t /\ hist' = HistAfter(Store, q, r)
           /\ UNCHANGED callers

Insert(S) ==
    \E q \in S : \E t \in Readings :
        \E r \in {executeQueryWith(Store, q, executeInsertQuery(Store, q, selectedDb(Store), t))} :
           /\ WithinBounds(Store, q)
           /\ databases' = r.databases /\ snapshots' = r.snapshots
           /\ selected' = r.selected /\ result' = r.result
           /\ now' = t /\ hist' = HistAfter(Store, q, r)
           /\ UNCHANGED callers

Update(S) ==
    \E q \in S : \E t \in {now} :
        \E r \in {executeQueryWith(Store, q, executeUpdateQuery(Store, q, selectedDb(Store)))} :
           /\ WithinBounds(Store, q)
           /\ databases' = r.databases /\ snapshots' = r.snapshots
           /\ selected' = r.selected /\ result' = r.result
           /\ now' = t /\ hist' = HistAfter(Store, q, r)
           /\ UNCHANGED callers

Delete(S) ==
    \E q \in S : \E t \in {now} :
        \E r \in {executeQueryWith(Store, q, executeDeleteQuery(Store, q, selectedDb(Store)))} :
           /\ WithinBounds(Store, q)
           /\ databases' = r.databases /\ snapshots' = r.snapshots
           /\ selected' = r.selected /\ result' = r.result
           /\ now' = t /\ hist' = HistAfter(Store, q, r)
           /\ UNCHANGED callers

CreateTable(S) ==
    \E q \in S : \E t \in Readings :
        \E r \in {executeQueryWith(Store, q, executeCreateTableQuery(Store, q, selectedDb(Store), t))} :
           /\ WithinBounds(Store, q)
           /\ databases' = r.databases /\ snapshots' = r.snapshots
           /\ selected' = r.selected /\ result' = r.result
           /\ now' = t /\ hist' = HistAfter(Store, q, r)
           /\ UNCHANGED callers

CreateDatabase(S) ==
    \E q \in S : \E t \in Readings :
        \E r \in {executeQueryWith(Store, q, executeCreateDatabaseQuery(Store, q, t))} :
           /\ WithinBounds(Store, q)
           /\ databases' = r.databases /\ snapshots' = r.snapshots
           /\ selected' = r.selected /\ result' = r.result
           /\ now' = t /\ hist' = HistAfter(Store, q, r)
           /\ UNCHANGED callers

DropDatabase(S) ==
    \E q \in S : \E t \in {now} :
        \E r \in {executeQueryWith(Store, q, executeDropDatabaseQuery(Store, q))} :
           /\ WithinBounds(Store, q)
           /\ databases' = r.databases /\ snapshots' = r.snapshots
           /\ selected' = r.selected /\ result' = r.result
           /\ now' = t /\ hist' = HistAfter(Store, q, r)
           /\ UNCHANGED callers

Use(S) ==
    \E q \in S : \E t \in {now} :
        \E r \in {executeQueryWith(Store, q, executeUseDatabaseQuery(Store, q))} :
           /\ WithinBounds(Store, q)
           /\ databases' = r.databases /\ snapshots' = r.snapshots
           /\ selected' = r.selected /\ result' = r.result
           /\ now' = t /\ hist' = HistAfter(Store, q, r)
           /\ UNCHANGED callers

DropTable(S) ==
    \E q \in S : \E t \in {now} :
        \E r \in {executeQueryWith(Store, q, executeDropTableQuery(Store, q, selectedDb(Store)))} :
           /\ WithinBounds(Store, q)
           /\ databases' = r.databases /\ snapshots' = r.snapshots
           /\ selected' = r.selected /\ result' = r.result
           /\ now' = t /\ hist' = HistAfter(Store, q, r)
           /\ UNCHANGED callers

Grant(S) ==
    \E q \in S : \E t \in Readings :
        \E r \in {executeQueryWith(Store, q, executeGrantQuery(Store, q, selectedDb(Store), t))} :
           /\ WithinBounds(Store, q)
           /\ databases' = r.databases /\ snapshots' = r.snapshots
           /\ selected' = r.selected /\ result' = r.result
           /\ now' = t /\ hist' = HistAfter(Store, q, r)
           /\ UNCHANGED callers

Revoke(S) ==
    \E q \in S : \E t \in Readings :
        \E r \in {executeQueryWith(Store, q, executeRevokeQuery(Store, q, selectedDb(Store), t))} :
           /\ WithinBounds(Store, q)
           /\ databases' = r.databases /\ snapshots' = r.snapshots
           /\ selected' = r.selected /\ result' = r.result
           /\ now' = t /\ hist' = HistAfter(Store, q, r)
           /\ UNCHANGED callers

Begin ==
    \E q \in {BeginStmt} : \E t \in {now} :
        \E r \in {executeQueryWith(Store, q, executeBeginQuery(Store))} :
           /\ WithinBounds(Store, q)
           /\ databases' = r.databases /\ snapshots' = r.snapshots
           /\ selected' = r.selected /\ result' = r.result
           /\ now' = t /\ hist' = HistAfter(Store, q, r)
           /\ UNCHANGED callers

Commit ==
    \E q \in {CommitStmt} : \E t \in {now} :
        \E r \in {executeQueryWith(Store, q, executeCommitQuery(Store))} :
           /\ databases' = r.databases /\ snapshots' = r.snapshots
           /\ selected' = r.selected /\ result' = r.result
           /\ now' = t /\ hist' = HistAfter(Store, q, r)
           /\ UNCHANGED callers

Rollback ==
    \E q \in {RollbackStmt} : \E t \in {now} :
        \E r \in {executeQueryWith(Store, q, executeRollbackQuery(Store))} :
           /\ databases' = r.databases /\ snapshots' = r.snapshots
           /\ selected' = r.selected /\ result' = r.result
           /\ now' = t /\ hist' = HistAfter(Store, q, r)
           /\ UNCHANGED callers

\* The empty statement and the statements that no branch takes.
Other(S) ==
    \E q \in S : \E t \in {now} :
        \E r \in {executeQueryWith(Store, q, Throw(Store, q.kind, "Unsupported query type"))} :
           /\ WithinBounds(Store, q)
           /\ databases' = r.databases /\ snapshots' = r.snapshots
           /\ selected' = r.selected /\ result' = r.result
           /\ now' = t /\ hist' = HistAfter(Store, q, r)
           /\ UNCHANGED callers

CreateDatabaseButton(S) ==
    \E dbName \in S, t \in Readings :
        /\ ObjectCount(databases) < MaxObjects
        /\ Apply(createDatabase(Store, dbName, t), t)

SelectDatabaseButton ==
    \E i \in DOMAIN databases : Apply(selectDatabase(Store, databases[i].id), now)

DeleteDatabaseButton ==
    \E i \in DOMAIN databases : Apply(deleteDatabase(Store, databases[i].id), now)

\* The tabs of one browser that have the page open: they share localStorage.
Tabs == {1, 2}

\* callers.tab[c] holds the locals of executeInsertQuery in the tab c while
\* the handler is between its getDatabases() and its saveDatabases().  The
\* other two fields record the run and no handler reads them: inserted counts
\* the INSERTs that have answered '1 row inserted successfully', and
\* interleaved says whether some tab loaded the DatabaseSet while another
\* tab was between its load and its save.
NoCallers ==
    [tab |-> [c \in Tabs |-> IdleTab], inserted |-> 0, interleaved |-> FALSE]

Init ==
    /\ databases = <<>>
    /\ snapshots = <<>>
    /\ selected = NoSelection
    /\ now = 1
    /\ result = NoResult
    /\ hist = <<>>
    /\ callers = NoCallers

\* Every statement but BEGIN, and the buttons.
NextNoBegin ==
    \/ Select(SelectStmts) \/ Insert(InsertStmts)
    \/ Update(UpdateStmts) \/ Delete(DeleteStmts)
    \/ CreateTable(CreateTableStmts) \/ DropTable(DropTableStmts)
    \/ CreateDatabase(CreateDatabaseStmts) \/ DropDatabase(DropDatabaseStmts)
    \/ Use(UseStmts)
    \/ Grant(GrantStmts) \/ Revoke(RevokeStmts)
    \/ Commit \/ Rollback \/ Other(OtherStmts)
    \/ CreateDatabaseButton({"d"})
    \/ SelectDatabaseButton \/ DeleteDatabaseButton

Next == NextNoBegin \/ Begin

Spec == Init /\ [][Next]_vars

\* The runs in which no BEGIN is submitted.
SpecNoBegin == Init /\ [][NextNoBegin]_vars

\* The Add Row form of a table of the selected database is filled in and
\* submitted.
AddRowForm ==
    /\ getSelectedDatabase(Store) # 0
    /\ ObjectCount(databases) < MaxObjects
    /\ \E i \in DOMAIN selectedDb(Store).tables : \E t \in Readings :
          LET table == selectedDb(Store).tables[i]
          IN \E raws \in [{table.columns[j].id : j \in DOMAIN table.columns} -> FormTexts] :
                Apply(addRow(Store, table.id, raws, t), t)

\* The Edit Row form of a row is changed and submitted.
EditRowForm ==
    /\ getSelectedDatabase(Store) # 0
    /\ \E i \in DOMAIN selectedDb(Store).tables :
          LET table == selectedDb(Store).tables[i]
          IN \E k \in DOMAIN table.rows :
             \E raws \in [{table.columns[j].id : j \in DOMAIN table.columns} -> FormTexts] :
                Apply(editRow(Store, table.id, table.rows[k].id, raws), now)

\* The Delete button of a row, confirmed.
DeleteRowForm ==
    /\ getSelectedDatabase(Store) # 0
    /\ \E i \in DOMAIN selectedDb(Store).tables :
          LET table == selectedDb(Store).tables[i]
          IN \E k \in DOMAIN table.rows :
                Apply(deleteRow(Store, table.id, table.rows[k].id), now)

\* The runs in which rows are written by the row forms alone: databases
\* come from the create button, tables from CREATE TABLE with a VARCHAR
\* column, rows from the Add Row and Edit Row forms, and the Delete button of a
\* row removes them.
NextForms ==
    \/ CreateDatabaseButton({"d"})
    \/ SelectDatabaseButton
    \/ CreateTable(VarcharTableStmts)
    \/ AddRowForm
    \/ EditRowForm
    \/ DeleteRowForm

SpecForms == Init /\ [][NextForms]_vars


\* The create-table form is filled in and submitted.
CreateTableForm(N, F) ==
    /\ getSelectedDatabase(Store) # 0
    /\ ObjectCount(databases) < MaxObjects
    /\ \E tableName \in N, fields \in F, t \in Readings :
          Apply(openCreateTableModal(Store, tableName, fields, t), t)

\* The rename form of a table of the selected database is submitted.
RenameTableForm ==
    /\ getSelectedDatabase(Store) # 0
    /\ \E i \in DOMAIN selectedDb(Store).tables : \E newName \in RenameNames :
          Apply(openRenameTableModal(Store, selectedDb(Store).tables[i].id, newName), now)

\* A file with a header line is imported into the selected database.
ImportFile(H) ==
    /\ getSelectedDatabase(Store) # 0
    /\ ObjectCount(databases) < MaxObjects
    /\ \E baseName \in ImportBaseNames, headers \in H, t \in Readings :
          Apply(createTableFromImportedData(Store, baseName, headers, t), t)

\* The manage-columns form of a table of the selected database is submitted.
ManageColumnsForm ==
    /\ getSelectedDatabase(Store) # 0
    /\ \E i \in DOMAIN selectedDb(Store).tables :
       \E first \in GridFirstNames, added \in GridAddedNames, t \in {now} :
       \E table \in {selectedDb(Store).tables[i]} :
       /\ Len(table.columns) + Len(added) <= MaxColumns
       /\ \E r \in {openManageColumnsModal(Store, table.id, Grids(table, first, added), t)} :
          Apply(r, t)

\* The runs in which the tables of a database come from every path that
\* makes or renames one: the CREATE TABLE statement, the create-table form,
\* the import of a file and the rename form, with ROLLBACK between them.
\* Every table has the one column a.
NextTables ==
    \/ CreateDatabaseButton({"d"})
    \/ CreateTable(SchemaTableStmts)
    \/ CreateTableForm(FormTableNames, {<<Field("a")>>})
    \/ RenameTableForm
    \/ ImportFile(ImportHeaders)
    \/ Rollback

SpecTables == Init /\ [][NextTables]_vars

\* The runs in which the columns of the table t come from every path that
\* makes or renames one: the CREATE TABLE statement, the create-table form
\* and the manage-columns form, with ROLLBACK between them.
NextColumns ==
    \/ CreateDatabaseButton({"d"})
    \/ CreateTable(SchemaColumnStmts)
    \/ CreateTableForm({"t"}, FormFieldLists)
    \/ ManageColumnsForm
    \/ Rollback

SpecColumns == Init /\ [][NextColumns]_vars


\* An INSERT of S is submitted while the DatabaseSet holds fewer than MaxRows
\* rows.
InsertRow(S) ==
    \E q \in S : \E t \in Readings :
        \E r \in {executeQueryWith(Store, q, executeInsertQuery(Store, q, selectedDb(Store), t))} :
           /\ Len(snapshots) < MaxSnap
           /\ RowCount(databases) < MaxRows
           /\ databases' = r.databases /\ snapshots' = r.snapshots
           /\ selected' = r.selected /\ result' = r.result
           /\ now' = t /\ hist' = HistAfter(Store, q, r)
           /\ UNCHANGED callers

\* The Add Row form of a table of the selected database is submitted with
\* the text 7 in every input, while the DatabaseSet holds fewer than MaxRows
\* rows.
AddRowFormSeven ==
    /\ getSelectedDatabase(Store) # 0
    /\ RowCount(databases) < MaxRows
    /\ \E i \in DOMAIN selectedDb(Store).tables : \E t \in Readings :
       \E table \in {selectedDb(Store).tables[i]} :
       \E r \in {addRow(Store, table.id,
                        [c \in {table.columns[j].id : j \in DOMAIN table.columns} |-> <<"7">>],
                        t)} :
          Apply(r, t)

\* The runs in which the table t (a INT) gets its rows one by one from
\* INSERT statements and from the Add Row form, with the Delete button of a
\* row and ROLLBACK between them.
NextRows ==
    \/ CreateDatabaseButton({"d"})
    \/ CreateTable({CreateTableStmt("t", DefsAInt)})
    \/ InsertRow({InsertStmt("t", <<"a">>, <<"5">>)})
    \/ AddRowFormSeven
    \/ DeleteRowForm
    \/ Rollback

SpecRows == Init /\ [][NextRows]_vars

\* The INSERT statements that the tabs submit.
CallerStmts == {InsertStmt("t", <<"a">>, <<v>>) : v \in {"5", "7"}}

\* The number of tabs that are between the load and the save of an INSERT.
Loaded == Cardinality({c \in Tabs : callers.tab[c].pc = "loaded"})

\* The tab c runs executeQuery on an INSERT up to its getDatabases(); Date.now()
\* is read on the way.  The bounds allow it while fewer than MaxRows INSERTs
\* have been started.
CallerLoad ==
    \E c \in Tabs : \E q \in CallerStmts : \E t \in Readings :
        \E l \in {executeInsertQueryLoad(Store, q, t)} :
           /\ callers.tab[c].pc = "idle"
           /\ Len(snapshots) < MaxSnap
           /\ callers.inserted + Loaded < MaxRows
           /\ databases' = l.st.databases /\ snapshots' = l.st.snapshots
           /\ selected' = l.st.selected /\ result' = l.st.result
           /\ now' = t
           /\ callers' = [callers EXCEPT
                            !.tab[c] = l.tab,
                            !.interleaved = @ \/ (l.tab.pc = "loaded" /\ Loaded > 0)]
           /\ UNCHANGED hist

\* The tab c runs the rest of executeInsertQuery: it pushes the row onto its
\* copy of the DatabaseSet and saves the copy.
CallerSave ==
    \E c \in {x \in Tabs : callers.tab[x].pc = "loaded"} :
        \E r \in {executeInsertQuerySave(Store, callers.tab[c])} :
           /\ databases' = r.databases /\ snapshots' = r.snapshots
           /\ selected' = r.selected /\ result' = r.result
           /\ callers' = [callers EXCEPT !.tab[c] = IdleTab, !.inserted = @ + 1]
           /\ UNCHANGED <<now, hist>>

\* The runs in which two tabs insert into the table t (a INT) that the forms
\* created, each INSERT in two steps: up to its load of the DatabaseSet, and
\* from there to its save.
NextCallers ==
    \/ CreateDatabaseButton({"d"})
    \/ CreateTableForm({"t"}, {<<Field("a")>>})
    \/ CallerLoad
    \/ CallerSave

SpecCallers == Init /\ [][NextCallers]_vars

\* The runs in which the table t is created from a column list of one or two
\* definitions, with COMMIT between the statements.
NextDecls ==
    \/ CreateDatabaseButton({"d"})
    \/ CreateTable(DeclStmts)
    \/ Commit

SpecDecls == Init /\ [][NextDecls]_vars

\* INSERT statements on t (a VARCHAR(2), b INT) whose VALUES list is shorter
\* or longer than the column list, and one where the two are as long.
ValueStmts ==
    {InsertStmt("t", <<"a", "b">>, <<"5">>),
     InsertStmt("t", <<"a">>, <<"5", ",", "6">>),
     InsertStmt("t", <<"a", "b">>, <<"5", ",", "6">>)}

\* The runs in which the table t (a VARCHAR(2), b INT) gets rows from INSERT
\* statements whose lists of columns and of values differ in length, with
\* COMMIT between them.
NextValues ==
    \/ CreateDatabaseButton({"d"})
    \/ CreateTable({CreateTableStmt("t", DefsAVarchar2BInt)})
    \/ InsertRow(ValueStmts)
    \/ Commit

SpecValues == Init /\ [][NextValues]_vars

(* ---------------------------- properties ------------------------------ *)

\* The statements of the nine mutating kinds, and every statement.
MutatingStmts ==
    InsertStmts \cup UpdateStmts \cup DeleteStmts \cup CreateTableStmts
    \cup CreateDatabaseStmts \cup DropTableStmts \cup DropDatabaseStmts
    \cup GrantStmts \cup RevokeStmts

Statements ==
    MutatingStmts \cup SelectStmts \cup UseStmts \cup OtherStmts
    \cup {BeginStmt, CommitStmt, RollbackStmt}

\* executeQuery dispatches a statement only when a database is selected.
HasSelection == getSelectedDatabase(Store) # 0

\* The kinds whose executors call pushSnapshot before they validate.
PushFirstKinds == {"INSERT", "UPDATE", "DELETE", "CREATE TABLE"}

\* The rows of the table that tableName names in the selected database of st.
RowsOf(st, tableName) ==
    LET db == getDatabases(st)[getSelectedDatabase(st)]
    IN db.tables[FindTable(db, tableName)].rows

\* Whether the selected database has a table of that name, whatever the case.
HasTable(tableName) ==
    /\ HasSelection
    /\ \E tb \in {databases[getSelectedDatabase(Store)].tables[i] :
                    i \in DOMAIN databases[getSelectedDatabase(Store)].tables} :
          Lower(tb.name) = Lower(tableName)

\* C1: in a run without BEGIN, once a mutating statement has succeeded since
\* the last COMMIT or ROLLBACK, a ROLLBACK restores the DatabaseSet to what
\* it was just before the most recent successful mutating statement (hist),
\* whatever was executed in between.
C1_RollbackUndoesLastMutation ==
    (hist # <<>> /\ HasSelection) =>
        executeQuery(Store, RollbackStmt, now).databases = hist[1]

\* C2: from every reachable state, for every INSERT that succeeds, BEGIN
\* then the INSERT then ROLLBACK leaves the target table with the rows it had
\* before BEGIN and the whole DatabaseSet as it was before BEGIN.
C2_BeginInsertRollback ==
    \A q \in InsertStmts : \A t \in Readings :
        LET s1 == executeQuery(Store, BeginStmt, now)
            s2 == executeQuery(s1, q, t)
            s3 == executeQuery(s2, RollbackStmt, t)
        IN (s2.result.op = "INSERT" /\ s2.result.type = "message") =>
              /\ RowsOf(s3, q.table) = RowsOf(Store, q.table)
              /\ s3.databases = databases

\* A state from which BEGIN, a successful INSERT that adds a row, and
\* ROLLBACK can be executed, below a snapshot that is already on the stack.
C2_Witness ==
    /\ snapshots # <<>>
    /\ \E q \in InsertStmts : \E t \in Readings :
          LET s1 == executeQuery(Store, BeginStmt, now)
              s2 == executeQuery(s1, q, t)
              s3 == executeQuery(s2, RollbackStmt, t)
          IN /\ s2.result.op = "INSERT" /\ s2.result.type = "message"
             /\ Len(RowsOf(s2, q.table)) = Len(RowsOf(Store, q.table)) + 1
             /\ s3.result.msg = "Rolled back to previous state"
             /\ Len(s3.snapshots) = Len(snapshots) + 1

\* C3 as stated: every statement of a mutating kind that succeeds makes the
\* stack one entry longer, the new entry being the DatabaseSet before it.
C3_EverySuccessPushes ==
    \A q \in MutatingStmts : \A t \in Readings :
        LET r == executeQuery(Store, q, t)
        IN r.result.type = "message" => r.snapshots = Append(snapshots, databases)

\* C3, amended: every statement of a mutating kind that succeeds pushes
\* exactly one snapshot, equal to the DatabaseSet before the statement,
\* except CREATE DATABASE IF NOT EXISTS naming a database that exists, which
\* succeeds and leaves the stack and the DatabaseSet as they were.
C3_MutationPushesOne ==
    \A q \in MutatingStmts : \A t \in Readings :
        LET r == executeQuery(Store, q, t)
        IN /\ Mutated(r) => r.snapshots = Append(snapshots, databases)
           /\ (r.result.type = "message" /\ ~Mutated(r)) =>
                 /\ q.kind = "CREATE DATABASE" /\ q.ifNotExists
                 /\ r.snapshots = snapshots /\ r.databases = databases

\* A successful mutating statement has just run on top of an older
\* snapshot: the stack's top is the DatabaseSet it changed.
C3_Witness ==
    /\ result.op \in MutatingKinds /\ result.type = "message"
    /\ result.msg # "Database already exists"
    /\ Len(snapshots) = 2
    /\ Top(snapshots) # databases

\* C4 as stated: a failing statement of any of the nine mutating kinds
\* leaves the stack one entry longer, its top equal to the unchanged
\* DatabaseSet.
C4_EveryFailureLeavesSnapshot ==
    \A q \in MutatingStmts : \A t \in Readings :
        LET r == executeQuery(Store, q, t)
        IN (HasSelection /\ r.result.type = "error") =>
              /\ r.snapshots = Append(snapshots, databases)
              /\ r.databases = databases

\* C4, amended: a failing INSERT, UPDATE, DELETE or CREATE TABLE leaves the
\* stack one entry longer, its top equal to the unchanged DatabaseSet; a
\* failing CREATE DATABASE, DROP DATABASE, DROP TABLE, GRANT or REVOKE leaves
\* the stack as it was.
C4_FailureSnapshotByKind ==
    \A q \in MutatingStmts : \A t \in Readings :
        LET r == executeQuery(Store, q, t)
        IN (HasSelection /\ r.result.type = "error") =>
              /\ r.databases = databases
              /\ r.snapshots = IF q.kind \in PushFirstKinds
                               THEN Append(snapshots, databases)
                               ELSE snapshots

\* A failed statement of a push-first kind has just run in a database that
\* holds a table: its snapshot is on top of the stack.
C4_Witness ==
    /\ result.type = "error" /\ result.op \in PushFirstKinds
    /\ snapshots # <<>> /\ Top(snapshots) = databases
    /\ TableCount(databases) > 0

\* C5: a statement that ends in an error leaves the DatabaseSet and the
\* selection as they were.
C5_ErrorChangesNothing ==
    \A q \in Statements : \A t \in Readings :
        LET r == executeQuery(Store, q, t)
        IN r.result.type = "error" =>
              r.databases = databases /\ r.selected = selected

\* A statement has just failed in a selected database that holds a row.
C5_Witness ==
    /\ result.type = "error" /\ result.op \in MutatingKinds
    /\ HasSelection /\ RowCount(databases) > 0

\* C6 as stated: with a non-empty stack, a ROLLBACK submitted through
\* executeQuery removes the top snapshot and restores it, whatever the
\* selection.
C6_RollbackWhateverSelection ==
    snapshots # <<>> =>
        LET r == executeQuery(Store, RollbackStmt, now)
        IN /\ r.snapshots = SubSeq(snapshots, 1, Len(snapshots) - 1)
           /\ r.databases = snapshots[Len(snapshots)]

\* C6, amended: with a non-empty stack and a database selected, a ROLLBACK
\* submitted through executeQuery removes the top snapshot and restores it;
\* with no database selected it is rejected and changes nothing.
C6_RollbackWhenSelected ==
    snapshots # <<>> =>
        LET r == executeQuery(Store, RollbackStmt, now)
        IN IF HasSelection
           THEN /\ r.snapshots = SubSeq(snapshots, 1, Len(snapshots) - 1)
                /\ r.databases = snapshots[Len(snapshots)]
                /\ r.result.type = "message"
           ELSE /\ r.snapshots = snapshots /\ r.databases = databases
                /\ r.result.type = "error"
                /\ r.result.msg = "No database selected"

\* A ROLLBACK has just restored a snapshot from a stack of two.
C6_Witness ==
    /\ result.op = "ROLLBACK" /\ result.msg = "Rolled back to previous state"
    /\ Len(snapshots) = 1
    /\ Top(snapshots) # databases

\* C7: COMMIT empties the stack whatever its depth and leaves the
\* DatabaseSet and the selection as they were, and the ROLLBACKs that follow
\* it leave the DatabaseSet (and the empty stack) as they are.
C7_CommitClears ==
    HasSelection =>
        LET r == executeQuery(Store, CommitStmt, now)
            r1 == executeQuery(r, RollbackStmt, now)
            r2 == executeQuery(r1, RollbackStmt, now)
        IN /\ r.snapshots = <<>>
           /\ r.databases = databases /\ r.selected = selected
           /\ r1.snapshots = <<>> /\ r1.databases = databases
           /\ r2.snapshots = <<>> /\ r2.databases = databases

\* A COMMIT has just run in a database that holds a table.
C7_Witness ==
    /\ result.op = "COMMIT" /\ result.type = "message"
    /\ snapshots = <<>>
    /\ HasSelection /\ TableCount(databases) > 0

\* C8: ROLLBACK on an empty stack answers with a message, not an error, and
\* leaves the DatabaseSet, the empty stack and the selection as they were.
C8_RollbackOnEmptyStack ==
    (snapshots = <<>> /\ HasSelection) =>
        LET r == executeQuery(Store, RollbackStmt, now)
        IN /\ r.result.type = "message"
           /\ r.databases = databases /\ r.snapshots = <<>>
           /\ r.selected = selected

\* A ROLLBACK has just found the stack empty, in a non-empty DatabaseSet.
C8_Witness ==
    /\ result.op = "ROLLBACK" /\ result.msg = "Nothing to rollback"
    /\ snapshots = <<>> /\ databases # <<>>

\* C9: a SELECT, successful or not, leaves the DatabaseSet, the stack and
\* the selection as they were, and a well-formed SELECT from a table that
\* the selected database does not have fails with "Table not found".
C9_SelectReadsOnly ==
    \A q \in SelectStmts :
        LET r == executeQuery(Store, q, now)
        IN /\ r.databases = databases /\ r.snapshots = snapshots
           /\ r.selected = selected
           /\ (HasSelection /\ q.wf /\ ~HasTable(q.table)) =>
                 r.result.type = "error" /\ r.result.msg = "Table not found"

\* A SELECT has just failed on a missing table while the selected database
\* holds another table and the stack a snapshot.
C9_Witness ==
    /\ result.op = "SELECT" /\ result.msg = "Table not found"
    /\ HasSelection /\ ~HasTable("u") /\ HasTable("t")
    /\ snapshots # <<>>

\* C10: when table t has column a and one row, with a = 5, the statement
\* UPDATE t SET a=6 WHERE a=5 succeeds and reports one row, and SELECT a
\* FROM t then returns that row with a = 6.
C10_UpdateRoundTrip ==
    (/\ HasTable("t")
     /\ Len(RowsOf(Store, "t")) = 1
     /\ executeQuery(Store, SelectStmt("t", <<"a">>, WhereA5), now).result.n = 1) =>
        LET r == executeQuery(Store, UpdateStmt("t", <<"a", "=", "6">>, WhereA5), now)
            s == executeQuery(r, SelectStmt("t", <<"a">>, NoWhere), now)
        IN /\ r.result.type = "message" /\ r.result.n = 1
           /\ s.result.type = "rows" /\ s.result.n = 1
           /\ \E c \in DOMAIN s.result.rows[1].cells :
                 s.result.rows[1].cells[c] = [k |-> "num", v |-> <<"6">>]

\* The column of the table that tableName names in the selected database.
ColumnOf(st, tableName, columnName) ==
    LET table == selectedDb(st).tables[FindTable(selectedDb(st), tableName)]
    IN table.columns[FindColumn(table, columnName)]

\* SELECT * FROM t
SelectAll(tableName) == SelectStmt(tableName, <<"*">>, NoWhere)

\* The literals 5, 'x', 'x,y' and 'x)y'.
InsertLiterals ==
    {<<"5">>, <<"'", "x", "'">>, <<"'", "x", ",", "y", "'">>,
     <<"'", "x", ")", "y", "'">>}

\* C11: when INSERT INTO t (a) VALUES (<literal>) succeeds, SELECT * FROM t
\* returns the rows it returned before, unchanged and in their order,
\* followed by one new row, and the new row holds under the id of column a
\* the value of the literal as written: the number for digits, the text
\* between the quotes for a quoted text, commas and parentheses included.
C11_InsertThenSelect ==
    \A lit \in InsertLiterals : \A t \in Readings :
        LET before == executeQuery(Store, SelectAll("t"), now)
            r == executeQuery(Store, InsertStmt("t", <<"a">>, lit), t)
            after == executeQuery(r, SelectAll("t"), t)
            n == Len(before.result.rows)
        IN (r.result.op = "INSERT" /\ r.result.type = "message") =>
              /\ after.result.type = "rows"
              /\ Len(after.result.rows) = n + 1
              /\ SubSeq(after.result.rows, 1, n) = before.result.rows
              /\ Cell(after.result.rows[n + 1], ColumnOf(Store, "t", "a").id)
                    = <<ParseLiteral(lit)>>

\* The column lists "a INT, b VARCHAR(3)" and
\* "a DECIMAL(10,2), b INT PRIMARY KEY".
DefsAIntBVarchar ==
    <<"a", " ", "I", "N", "T", ",", " ",
      "b", " ", "V", "A", "R", "C", "H", "A", "R", "(", "3", ")">>
DefsADecimalBInt ==
    <<"a", " ", "D", "E", "C", "I", "M", "A", "L", "(", "1", "0", ",", "2", ")", ",", " ",
      "b", " ", "I", "N", "T", " ", "P", "R", "I", "M", "A", "R", "Y", " ", "K", "E", "Y">>

\* Column lists with the names and base types they declare, in order.
Declarations ==
    {[defs |-> DefsAInt, names |-> <<"a">>, types |-> <<"number">>],
     [defs |-> DefsAIntBVarchar, names |-> <<"a", "b">>, types |-> <<"number", "text">>],
     [defs |-> DefsADecimalBInt, names |-> <<"a", "b">>, types |-> <<"number", "number">>]}

\* C12: when CREATE TABLE t (<column list>) succeeds, a following
\* SELECT * FROM t succeeds and returns as columns the declared ones, by
\* name and base type and in the order of the declaration, and no rows.
C12_CreateThenSelectAll ==
    \A decl \in Declarations : \A t \in Readings :
        LET r == executeQuery(Store, CreateTableStmt("t", decl.defs), t)
            s == executeQuery(r, SelectAll("t"), t)
        IN (r.result.op = "CREATE TABLE" /\ r.result.type = "message") =>
              /\ s.result.type = "rows"
              /\ [i \in DOMAIN s.result.columns |-> s.result.columns[i].name] = decl.names
              /\ [i \in DOMAIN s.result.columns |-> s.result.columns[i].type] = decl.types
              /\ s.result.rows = <<>>

\* A state, with a snapshot on the stack, in which a CREATE TABLE of two
\* columns succeeds and SELECT * then returns two columns and no rows.
C12_Witness ==
    /\ snapshots # <<>>
    /\ \E decl \in Declarations : \E t \in Readings :
          LET r == executeQuery(Store, CreateTableStmt("t", decl.defs), t)
              s == executeQuery(r, SelectAll("t"), t)
          IN /\ r.result.op = "CREATE TABLE" /\ r.result.type = "message"
             /\ Len(s.result.columns) = 2 /\ s.result.n = 0

\* DELETE FROM t and DELETE FROM t WHERE a = 5
DeleteProbes == {DeleteStmt("t", NoWhere), DeleteStmt("t", WhereA5)}

\* Whether a row of table t satisfies the condition of the DELETE d: every
\* row when d has no WHERE; for WHERE a = 5, the rows whose cell under
\* column a equals 5.
Satisfies(st, d, row) ==
    \/ d.where = NoWhere
    \/ Compare(Cell(row, ColumnOf(st, "t", "a").id), <<"=">>, ParseLiteral(<<"5">>)) = "yes"

\* C13: after INSERT INTO t (a) VALUES (6) has added a row to t, a DELETE
\* FROM t [WHERE a = 5] that succeeds leaves in t exactly the rows that do
\* not satisfy its condition, unchanged and in their order, and the count in
\* its message is the number of rows that left the table.
C13_DeleteRemovesMatching ==
    \A d \in DeleteProbes : \A t \in Readings :
        LET s0 == executeQuery(Store, InsertStmt("t", <<"a">>, <<"6">>), t)
            r == executeQuery(s0, d, t)
        IN (/\ s0.result.op = "INSERT" /\ s0.result.type = "message"
            /\ r.result.op = "DELETE" /\ r.result.type = "message") =>
              /\ RowsOf(r, "t") =
                    SelectSeq(RowsOf(s0, "t"), LAMBDA row : ~Satisfies(s0, d, row))
              /\ r.result.n = Len(RowsOf(s0, "t")) - Len(RowsOf(r, "t"))

\* WHERE a = 9: no INSERT of the model stores a 9.
WhereA9 == <<[column |-> "a", between |-> <<"=">>, literal |-> <<"9">>]>>

\* C14: whatever row an INSERT has just added to t (a = 5 or a = 6, or none
\* when the INSERT fails), (1) DELETE FROM t WHERE a = 9, when t exists,
\* reports 0 rows deleted and leaves the DatabaseSet as it was, as does every
\* DELETE that reports 0 rows; (2) for every DELETE statement, executing it
\* a second time leaves the DatabaseSet as the first execution left it.
C14_DeleteIdempotent ==
    \A lit \in {<<"5">>, <<"6">>} : \A t \in Readings :
    \A d \in DeleteStmts \cup {DeleteStmt("t", WhereA9)} :
        LET s0 == executeQuery(Store, InsertStmt("t", <<"a">>, lit), t)
            r1 == executeQuery(s0, d, t)
            r2 == executeQuery(r1, d, t)
        IN /\ r2.databases = r1.databases
           /\ (r1.result.op = "DELETE" /\ r1.result.type = "message" /\ r1.result.n = 0) =>
                 r1.databases = s0.databases
           /\ (HasTable("t") /\ d = DeleteStmt("t", WhereA9)) =>
                 /\ r1.result.type = "message" /\ r1.result.n = 0
                 /\ r1.databases = s0.databases

\* A state whose table t holds a row, in which DELETE FROM t WHERE a = 9
\* reports 0 rows and DELETE FROM t WHERE a = 5, executed twice, deletes a
\* row the first time and none the second.
C14_Witness ==
    /\ HasTable("t") /\ RowsOf(Store, "t") # <<>>
    /\ executeQuery(Store, DeleteStmt("t", WhereA9), now).result.n = 0
    /\ executeQuery(Store, DeleteStmt("t", WhereA9), now).result.type = "message"
    /\ LET r1 == executeQuery(Store, DeleteStmt("t", WhereA5), now)
           r2 == executeQuery(r1, DeleteStmt("t", WhereA5), now)
       IN r1.result.n = 1 /\ r2.result.n = 0 /\ r2.result.type = "message"

\* The seven operators of the WHERE clause, as written.
SevenOperators ==
    {<<"=">>, <<"!", "=">>, <<"<", ">">>, <<">">>, <<"<">>, <<">", "=">>, <<"<", "=">>}

\* The relation that an operator names, on two numbers.
Relation(op, x, y) ==
    CASE op = <<"=">> -> x = y
      [] op \in {<<"!", "=">>, <<"<", ">">>} -> x # y
      [] op = <<">">> -> x > y
      [] op = <<"<">> -> x < y
      [] op = <<">", "=">> -> x >= y
      [] OTHER -> x <= y

\* WHERE a <op> <literal>
WhereA(op, literal) == <<[column |-> "a", between |-> op, literal |-> literal]>>

\* C15: with a row a = 5 or a = 6 just inserted into t, for each of the
\* seven operators and each of the literals 5 and 6, SELECT * FROM t WHERE
\* a <op> <literal> succeeds and returns exactly the rows of t whose number
\* under a stands in the operator's relation to the literal, in their order.
C15_SevenOperators ==
    \A op \in SevenOperators : \A lit \in {<<"5">>, <<"6">>} :
    \A v \in {<<"5">>, <<"6">>} : \A t \in Readings :
        LET s0 == executeQuery(Store, InsertStmt("t", <<"a">>, v), t)
            r == executeQuery(s0, SelectStmt("t", <<"*">>, WhereA(op, lit)), t)
            cell(row) == Cell(row, ColumnOf(s0, "t", "a").id)[1]
        IN (s0.result.op = "INSERT" /\ s0.result.type = "message") =>
              /\ r.result.type = "rows"
              /\ r.result.rows =
                    SelectSeq(RowsOf(s0, "t"),
                              LAMBDA row : Relation(op, NumberOf(cell(row).v), NumberOf(lit)))

\* WHERE a = 5 AND b = 6: after the operator the regex takes the rest of
\* the clause, "5 AND b = 6", as the literal.
WhereAnd ==
    WhereA(<<"=">>, <<"5", " ", "A", "N", "D", " ", "b", " ", "=", " ", "6">>)

\* WHERE clauses that are not one comparison with a supported operator:
\* a = 5 AND b = 6, a == 5, a => 5, a >< 5.
BadConditions ==
    {WhereAnd, WhereBadOp, WhereA(<<"=", ">">>, <<"5">>), WhereA(<<">", "<">>, <<"5">>)}

\* C16: when table t exists, whatever rows it holds, a SELECT or DELETE on t
\* whose WHERE clause is not a single comparison with one of the seven
\* operators ends in an error about the condition and leaves the
\* DatabaseSet as it was.
C16_BadConditionFails ==
    \A w \in BadConditions :
    \A q \in {SelectStmt("t", <<"*">>, w), DeleteStmt("t", w)} :
        LET r == executeQuery(Store, q, now)
        IN HasTable("t") =>
              /\ r.result.type = "error"
              /\ r.result.msg \in {"Invalid condition", "Unsupported operator"}
              /\ r.databases = databases

DropTableStmt(table) == [kind |-> "DROP TABLE", wf |-> TRUE, table |-> table]

\* C17: when CREATE TABLE <name> (a INT) succeeds, for the name written T
\* or t, the statements that name the table as T and as t have the same
\* outcome, and it is the outcome on the created table: INSERT adds its row
\* to it, SELECT * returns its column and that row, DELETE removes the row
\* and DROP TABLE removes the table.
C17_TableNameAnyCase ==
    \A created \in {"T", "t"} : \A t \in Readings :
        LET s1 == executeQuery(Store, CreateTableStmt(created, DefsAInt), t)
            table == selectedDb(s1).tables[Len(selectedDb(s1).tables)]
            ins(n) == executeQuery(s1, InsertStmt(n, <<"a">>, <<"5">>), t)
            sel(n) == executeQuery(ins("t"), SelectAll(n), t)
            del(n) == executeQuery(ins("t"), DeleteStmt(n, NoWhere), t)
            drop(n) == executeQuery(ins("t"), DropTableStmt(n), t)
        IN (s1.result.op = "CREATE TABLE" /\ s1.result.type = "message") =>
              /\ table.name = created
              /\ ins("T") = ins("t") /\ ins("t").result.type = "message"
              /\ RowsOf(ins("t"), created) = <<NewRow(table, <<"a">>, <<<<"5">>>>, t)>>
              /\ sel("T") = sel("t") /\ sel("t").result.type = "rows"
              /\ sel("t").result.columns = table.columns
              /\ sel("t").result.rows = RowsOf(ins("t"), created)
              /\ del("T") = del("t") /\ del("t").result.type = "message"
              /\ del("t").result.n = 1 /\ RowsOf(del("t"), created) = <<>>
              /\ drop("T") = drop("t") /\ drop("t").result.type = "message"
              /\ selectedDb(drop("t")).tables = selectedDb(Store).tables

\* A state, with a snapshot on the stack, whose selected database has no
\* table t and in which CREATE TABLE T (a INT) succeeds, INSERT INTO t
\* then adds a row and SELECT * FROM t returns it.
C17_Witness ==
    /\ snapshots # <<>> /\ HasSelection /\ ~HasTable("t")
    /\ LET s1 == executeQuery(Store, CreateTableStmt("T", DefsAInt), now)
           s2 == executeQuery(s1, InsertStmt("t", <<"a">>, <<"5">>), now)
           s3 == executeQuery(s2, SelectAll("t"), now)
       IN /\ s1.result.type = "message" /\ s2.result.type = "message"
          /\ selectedDb(s1).tables[1].name = "T"
          /\ s3.result.type = "rows" /\ s3.result.n = 1

\* The text columns of a table that were declared with a length.
SizedColumns(table) ==
    {table.columns[i] : i \in {j \in DOMAIN table.columns :
        table.columns[j].type = "text" /\ table.columns[j].length # Null}}

\* Every input of a form of the table holding the same text.
AllInputs(table, raw) ==
    [c \in {table.columns[j].id : j \in DOMAIN table.columns} |-> raw]

\* The literal 'xyz'.
QuotedXyz == <<"'", "x", "y", "z", "'">>

\* C18: in the runs whose rows are written by the row forms alone, for
\* every text column declared with a length n: (1) every stored cell of the
\* column has at most n characters; (2) a text longer than n submitted in
\* the Add Row form or in the Edit Row form is stored as its first n
\* characters; (3) INSERT INTO t (a) VALUES ('xyz') stores the three
\* characters xyz, whatever n is.
C18_FormTruncates ==
    HasTable("t") =>
        LET table == selectedDb(Store).tables[FindTable(selectedDb(Store), "t")]
        IN \A col \in SizedColumns(table) :
              LET n == col.length[1]
                  cut(raw) == [k |-> "str", v |-> SubSeq(raw, 1, n)]
                  ins == executeQuery(Store, InsertStmt("t", <<"a">>, QuotedXyz), now)
              IN /\ \A i \in DOMAIN table.rows : Len(table.rows[i].cells[col.id].v) <= n
                 /\ \A raw \in FormTexts :
                       Len(raw) > n =>
                          LET added == RowsOf(addRow(Store, table.id, AllInputs(table, raw), now), "t")
                          IN added[Len(added)].cells[col.id] = cut(raw)
                 /\ \A raw \in FormTexts : \A i \in DOMAIN table.rows :
                       Len(raw) > n =>
                          LET edited == RowsOf(editRow(Store, table.id, table.rows[i].id,
                                                       AllInputs(table, raw)), "t")
                          IN edited[i].cells[col.id] = cut(raw)
                 /\ (col.name = "a" /\ ins.result.type = "message") =>
                       LET rows == RowsOf(ins, "t")
                       IN rows[Len(rows)].cells[col.id] = [k |-> "str", v |-> <<"x", "y", "z">>]

\* CREATE DATABASE [IF NOT EXISTS] name
CreateDatabaseStmt(name, ifNotExists) ==
    [kind |-> "CREATE DATABASE", wf |-> TRUE, name |-> name,
     ifNotExists |-> ifNotExists]

\* The names of the databases of the model in lower and in upper case.
AnyCaseDatabaseNames == {"d", "D", "e", "E"}

\* Some database of the DatabaseSet has this name, ignoring case.
NameInUse(name) ==
    \E i \in DOMAIN databases :
        ToUpperCase(<<databases[i].name>>) = ToUpperCase(<<name>>)

\* C19: a CREATE DATABASE whose name is, ignoring case, the name of a
\* database of the DatabaseSet leaves the DatabaseSet, the snapshot stack and
\* the selection as they were; when it is parsed (a database is selected), it
\* answers with a message if IF NOT EXISTS was written and with the
\* already-exists error if not.
C19_CreateExistingDatabase ==
    \A name \in AnyCaseDatabaseNames : \A ifNotExists \in BOOLEAN :
        NameInUse(name) =>
            LET r == executeQuery(Store, CreateDatabaseStmt(name, ifNotExists), now)
            IN /\ r.databases = databases
               /\ r.snapshots = snapshots
               /\ r.selected = selected
               /\ HasSelection =>
                     /\ r.result.msg = "Database already exists"
                     /\ r.result.type = IF ifNotExists THEN "message" ELSE "error"

\* A CREATE DATABASE has just been refused for a name in use, in a
\* DatabaseSet of two databases with a snapshot on the stack.
C19_Witness ==
    /\ result.op = "CREATE DATABASE" /\ result.type = "error"
    /\ result.msg = "Database already exists"
    /\ HasSelection /\ Len(databases) = 2 /\ snapshots # <<>>
    /\ NameInUse("D") /\ NameInUse("E")

\* C20: in every state, that is after every statement and every click of a
\* button of the database list, the selection is empty or is the id of a
\* database of the DatabaseSet.
C20_SelectionExists ==
    \/ selected = NoSelection
    \/ \E i \in DOMAIN databases : databases[i].id = selected

\* A ROLLBACK has just restored a DatabaseSet that lacks the selected
\* database and still holds another one: the selection was removed.
C20_Witness ==
    /\ result.op = "ROLLBACK" /\ result.msg = "Rolled back to previous state"
    /\ selected = NoSelection
    /\ databases # <<>>

\* USE name
UseStmt(name) == [kind |-> "USE", wf |-> TRUE, name |-> name]

PermissionStmts ==
    [kind : {"GRANT", "REVOKE"}, wf : {TRUE}, privilege : {"SELECT", "select"},
     scopeType : {"TABLE", "table", "DATABASE"}, name : {"t", "x"},
     user : {"eve"}]

\* C22: a GRANT or REVOKE that matches its regex succeeds, and the
\* DatabaseSet after it is the one before it with one event more at the end
\* of the log of the selected database: the event carries the action, the
\* privilege, the scope type (in upper case), the name and the user of the
\* statement; the earlier events, the tables with their rows, the other
\* databases and the selection are as they were.
C22_PermissionAppendsOne ==
    HasSelection =>
        \A q \in PermissionStmts : \A t \in Readings :
            LET r == executeQuery(Store, q, t)
                di == getSelectedDatabase(Store)
                old == databases[di].permissions
                new == r.databases[di].permissions
            IN /\ r.result.type = "message"
               /\ r.selected = selected
               /\ Len(r.databases) = Len(databases)
               /\ \A j \in DOMAIN databases : j # di => r.databases[j] = databases[j]
               /\ r.databases[di].id = databases[di].id
               /\ r.databases[di].name = databases[di].name
               /\ r.databases[di].tables = databases[di].tables
               /\ Len(new) = Len(old) + 1
               /\ SubSeq(new, 1, Len(old)) = old
               /\ new[Len(new)].action = q.kind
               /\ new[Len(new)].privilege = q.privilege
               /\ new[Len(new)].scopeType =
                     IF q.scopeType \in {"TABLE", "table"} THEN "TABLE" ELSE "DATABASE"
               /\ new[Len(new)].name = q.name
               /\ new[Len(new)].user = q.user

\* A REVOKE has just added the second event to the log of the selected
\* database.
C22_Witness ==
    /\ result.op = "REVOKE" /\ result.type = "message"
    /\ HasSelection
    /\ Len(selectedDb(Store).permissions) = 2
    /\ selectedDb(Store).permissions[1].action = "GRANT"
    /\ selectedDb(Store).permissions[2].action = "REVOKE"

\* The statements other than GRANT and REVOKE.
UnprivilegedStmts ==
    SelectStmts \cup InsertStmts \cup UpdateStmts \cup DeleteStmts
    \cup CreateTableStmts \cup DropTableStmts
    \cup CreateDatabaseStmts \cup DropDatabaseStmts \cup UseStmts
    \cup OtherStmts \cup {BeginStmt, CommitStmt, RollbackStmt}

\* A permission log that differs from log: empty where log has events, one
\* REVOKE where log is empty.
OtherLog(log) ==
    IF log # <<>> THEN <<>>
    ELSE <<[action |-> "REVOKE", privilege |-> "SELECT", scopeType |-> "TABLE",
            name |-> "t", user |-> "eve", at |-> 1]>>

\* The DatabaseSet dbs with every permission log replaced by a different one.
WithOtherLogs(dbs) ==
    [i \in DOMAIN dbs |-> [dbs[i] EXCEPT !.permissions = OtherLog(@)]]

\* The DatabaseSet dbs without its permission logs.
WithoutLogs(dbs) ==
    [i \in DOMAIN dbs |-> [dbs[i] EXCEPT !.permissions = <<>>]]

\* C23: take the storage of a reachable state and the storage that differs
\* from it only in the permission logs, of the DatabaseSet and of the
\* snapshots.  Every statement other than GRANT and REVOKE gives the same
\* result or error on both, and leaves the same tables and rows, the same
\* snapshots up to their logs and the same selection.
C23_LogNeverConsulted ==
    LET other == [Store EXCEPT
                     !.databases = WithOtherLogs(@),
                     !.snapshots = [k \in DOMAIN @ |-> WithOtherLogs(@[k])]]
    IN \A q \in UnprivilegedStmts :
          LET r1 == executeQuery(Store, q, now)
              r2 == executeQuery(other, q, now)
          IN /\ r1.result = r2.result
             /\ WithoutLogs(r1.databases) = WithoutLogs(r2.databases)
             /\ Len(r1.snapshots) = Len(r2.snapshots)
             /\ \A k \in DOMAIN r1.snapshots :
                   WithoutLogs(r1.snapshots[k]) = WithoutLogs(r2.snapshots[k])
             /\ r1.selected = r2.selected

\* A SELECT has just succeeded on a table of a database whose permission
\* log ends with a REVOKE.
C23_Witness ==
    /\ result.op = "SELECT" /\ result.type = "rows"
    /\ HasSelection
    /\ selectedDb(Store).permissions # <<>>
    /\ selectedDb(Store).permissions[Len(selectedDb(Store).permissions)].action = "REVOKE"

\* No two tables of a database of dbs have names that are equal ignoring
\* case.
TableNamesDiffer(dbs) ==
    \A i \in DOMAIN dbs : \A j, k \in DOMAIN dbs[i].tables :
        j # k => ToUpperCase(<<dbs[i].tables[j].name>>) # ToUpperCase(<<dbs[i].tables[k].name>>)

\* C24: in every state that the CREATE TABLE statement, the create-table
\* form, the import of a file, the rename form, DROP TABLE and ROLLBACK
\* reach, the tables of each database have names that differ ignoring case.
C24_TableNamesUnique == TableNamesDiffer(databases)

\* No two columns of a table of dbs have names that are equal ignoring
\* case.
ColumnNamesDiffer(dbs) ==
    \A i \in DOMAIN dbs : \A j \in DOMAIN dbs[i].tables :
        \A k, l \in DOMAIN dbs[i].tables[j].columns :
            k # l => ToUpperCase(<<dbs[i].tables[j].columns[k].name>>)
                       # ToUpperCase(<<dbs[i].tables[j].columns[l].name>>)

\* C25: in every state that the CREATE TABLE statement, the create-table
\* form, the manage-columns form and ROLLBACK reach, the columns of each
\* table have names that differ ignoring case.
C25_ColumnNamesUnique == ColumnNamesDiffer(databases)

\* No two rows of a table of dbs have the same id.
RowIdsDiffer(dbs) ==
    \A i \in DOMAIN dbs : \A j \in DOMAIN dbs[i].tables :
        \A k, l \in DOMAIN dbs[i].tables[j].rows :
            k # l => dbs[i].tables[j].rows[k].id # dbs[i].tables[j].rows[l].id

\* C26: in every state that INSERT statements, the Add Row form, the Delete
\* button of a row and ROLLBACK reach, whatever the clock reads, the rows of
\* each table have ids that differ.
C26_RowIdsUnique == RowIdsDiffer(databases)

\* The databases of dbs have ids that differ and names that differ as they
\* are written.
DatabasesDiffer(dbs) ==
    \A i, j \in DOMAIN dbs :
        i # j => dbs[i].id # dbs[j].id /\ dbs[i].name # dbs[j].name

\* C27: in every state that CREATE DATABASE, the create button, DROP
\* DATABASE and ROLLBACK reach, whatever the clock reads, the databases have
\* ids that differ and names that differ.
C27_DatabasesUnique == DatabasesDiffer(databases)

\* The databases have names that differ as they are written: this much
\* holds in every state.
DatabaseNamesDiffer ==
    \A i, j \in DOMAIN databases : i # j => databases[i].name # databases[j].name

\* The column lists of the SELECT statements of C28.
ColumnLists == {<<"a">>, <<"A">>, <<"a", "A">>}

\* The columns of table that a column list names, ignoring case.
NamedColumns(table, list) ==
    {table.columns[i] : i \in
        {i \in DOMAIN table.columns :
            \E k \in DOMAIN list :
                ToUpperCase(<<table.columns[i].name>>) = ToUpperCase(<<list[k]>>)}}

\* Every name of the list is, ignoring case, the name of a column of table.
AllNamed(table, list) ==
    \A k \in DOMAIN list : \E i \in DOMAIN table.columns :
        ToUpperCase(<<table.columns[i].name>>) = ToUpperCase(<<list[k]>>)

\* C28: a SELECT from the table t whose column list names, in any letter
\* case, only columns that t has succeeds, and the columns of its result are
\* the columns that the list names.
C28_SelectNamedColumns ==
    HasTable("t") =>
        LET table == selectedDb(Store).tables[FindTable(selectedDb(Store), "t")]
        IN \A list \in ColumnLists :
              AllNamed(table, list) =>
                 LET r == executeQuery(Store, SelectStmt("t", list, NoWhere), now)
                 IN /\ r.result.type = "rows"
                    /\ {r.result.columns[i] : i \in DOMAIN r.result.columns}
                          = NamedColumns(table, list)

\* C28 for the column lists that write the names as the table has them.
SelectColumnsAsWritten ==
    HasTable("t") =>
        LET table == selectedDb(Store).tables[FindTable(selectedDb(Store), "t")]
        IN \A list \in ColumnLists :
              (\A k \in DOMAIN list : \E i \in DOMAIN table.columns :
                    table.columns[i].name = list[k]) =>
                 LET r == executeQuery(Store, SelectStmt("t", list, NoWhere), now)
                 IN /\ r.result.type = "rows"
                    /\ {r.result.columns[i] : i \in DOMAIN r.result.columns}
                          = NamedColumns(table, list)

\* The tables of the selected database other than the one that a statement
\* naming tableName is about, which is the first whose name equals tableName
\* ignoring case.
OtherTables(st, tableName) ==
    LET tables == selectedDb(st).tables
        target == CHOOSE i \in DOMAIN tables :
                     /\ ToUpperCase(<<tables[i].name>>) = ToUpperCase(<<tableName>>)
                     /\ \A j \in 1..(i - 1) :
                           ToUpperCase(<<tables[j].name>>) # ToUpperCase(<<tableName>>)
    IN DOMAIN tables \ {target}

\* Some table of the selected database has the name tableName, ignoring case.
Named(st, tableName) ==
    \E i \in DOMAIN selectedDb(st).tables :
        ToUpperCase(<<selectedDb(st).tables[i].name>>) = ToUpperCase(<<tableName>>)

\* The INSERT and DELETE statements of C29 on the table tableName.
RowStmts(tableName) ==
    {InsertStmt(tableName, <<"a">>, <<"5">>), DeleteStmt(tableName, NoWhere)}

\* r differs from st at most in the rows of the table tableName of the
\* selected database.
OnlyRowsOf(st, r, tableName) ==
    LET di == getSelectedDatabase(st)
    IN /\ r.selected = st.selected
       /\ Len(r.databases) = Len(st.databases)
       /\ \A j \in DOMAIN st.databases : j # di => r.databases[j] = st.databases[j]
       /\ Len(r.databases[di].tables) = Len(st.databases[di].tables)
       /\ \A k \in DOMAIN st.databases[di].tables :
             /\ r.databases[di].tables[k].columns = st.databases[di].tables[k].columns
             /\ r.databases[di].tables[k].name = st.databases[di].tables[k].name
             /\ k \in OtherTables(st, tableName) =>
                   r.databases[di].tables[k] = st.databases[di].tables[k]

\* C29: in every state, those with two tables created in the same
\* millisecond included, an INSERT INTO x, and a DELETE FROM x after it,
\* change at most the rows of the table named x of the selected database.
C29_RowStatementsFrame ==
    HasSelection =>
        \A x \in {"t", "u"} : \A t \in Readings :
            Named(Store, x) =>
                LET r1 == executeQuery(Store, InsertStmt(x, <<"a">>, <<"5">>), t)
                    r2 == executeQuery(r1, DeleteStmt(x, NoWhere), t)
                IN /\ OnlyRowsOf(Store, r1, x)
                   /\ OnlyRowsOf(r1, r2, x)

\* The tables of the selected database have ids that differ from each other.
TableIdsDiffer(st) ==
    \A i, j \in DOMAIN selectedDb(st).tables :
        selectedDb(st).tables[i].id = selectedDb(st).tables[j].id => i = j

\* In the states whose tables have different ids, INSERT and DELETE change at
\* most the rows of the table they name.
RowStatementsFrameDistinctIds ==
    (HasSelection /\ TableIdsDiffer(Store)) =>
        \A x \in {"t", "u"} : \A t \in Readings :
            Named(Store, x) =>
                LET r1 == executeQuery(Store, InsertStmt(x, <<"a">>, <<"5">>), t)
                    r2 == executeQuery(r1, DeleteStmt(x, NoWhere), t)
                IN /\ OnlyRowsOf(Store, r1, x)
                   /\ OnlyRowsOf(r1, r2, x)

\* A state the frame is checked in with another table to preserve: two
\* tables of different ids in the selected database.
RowStatementsFrameReached ==
    /\ HasSelection
    /\ TableIdsDiffer(Store)
    /\ Len(selectedDb(Store).tables) = 2

\* DROP TABLE x in the store st: when a table has the name and the statement
\* succeeds, the tables left are the other tables, in their order, and
\* nothing else changes; when no table has the name, the statement fails with
\* 'Table not found' and changes nothing.
DropTableFrame(st, x, t) ==
    LET di == getSelectedDatabase(st)
        tables == selectedDb(st).tables
        r == executeQuery(st, DropTableStmt(x), t)
        others == OtherTables(st, x)
    IN IF Named(st, x)
       THEN r.result.type = "message" =>
               /\ Len(r.databases[di].tables) = Len(tables) - 1
               /\ \A k \in others : \E m \in DOMAIN r.databases[di].tables :
                     r.databases[di].tables[m] = tables[k]
               /\ Len(r.databases) = Len(st.databases)
               /\ \A j \in DOMAIN st.databases :
                     j # di => r.databases[j] = st.databases[j]
               /\ r.selected = st.selected
       ELSE /\ r.result.type = "error"
            /\ r.result.msg = "Table not found"
            /\ r.databases = st.databases
            /\ r.selected = st.selected

\* C30: a successful DROP TABLE x removes exactly one table, the one named x,
\* and leaves every other table of the selected database, every other
\* database and the selection unchanged; DROP TABLE of a name that no table
\* has fails with 'Table not found' and removes nothing.
C30_DropTableRemovesOne ==
    HasSelection => \A x \in {"t", "u", "x"} : DropTableFrame(Store, x, now)

\* In the states whose tables have different ids, DROP TABLE removes the
\* named table and no other, and fails on a name that no table has.
DropTableRemovesOneDistinctIds ==
    (HasSelection /\ TableIdsDiffer(Store)) =>
        \A x \in {"t", "u", "x"} : DropTableFrame(Store, x, now)

\* DROP TABLE x fails with 'Table not found' and changes nothing when no
\* table of the selected database has the name.
DropTableNotFound ==
    HasSelection =>
        \A x \in {"t", "u", "x"} : ~Named(Store, x) => DropTableFrame(Store, x, now)

\* The store after the statement q was submitted n times, each at the clock
\* reading t.
RECURSIVE Repeated(_, _, _, _)
Repeated(st, q, n, t) ==
    IF n = 0 THEN st ELSE Repeated(executeQuery(st, q, t), q, n - 1, t)

\* The lengths of the runs of BEGIN that C31 is checked on.
BeginRuns == 1..3

\* C31: each BEGIN pushes exactly one snapshot, the DatabaseSet as it is, and
\* changes neither the DatabaseSet nor the selection, however many BEGINs
\* came before it; n BEGINs followed by n ROLLBACKs leave the snapshot stack
\* and the DatabaseSet as they were.
C31_BeginPushesOne ==
    HasSelection =>
        \A n \in BeginRuns :
            LET before == Repeated(Store, BeginStmt, n - 1, now)
                after == executeQuery(before, BeginStmt, now)
                back == Repeated(after, RollbackStmt, n, now)
            IN /\ after.result.type = "message"
               /\ after.snapshots = Append(before.snapshots, before.databases)
               /\ after.databases = before.databases
               /\ after.selected = before.selected
               /\ back.snapshots = snapshots
               /\ back.databases = databases
               /\ back.selected = selected

\* A BEGIN has just been accepted while a snapshot was already on the stack.
C31_Witness ==
    /\ HasSelection
    /\ result.op = "BEGIN" /\ result.type = "message"
    /\ Len(snapshots) = MaxSnap
    /\ snapshots[MaxSnap] = databases

\* A step pushes the DatabaseSet as it was onto the stack, under BEGIN or a
\* statement of a mutating kind.
StackPush ==
    /\ snapshots' = Append(snapshots, databases)
    /\ result'.op \in MutatingKinds \cup {"BEGIN"}

\* A step pops the top of the stack and makes it the DatabaseSet, under
\* ROLLBACK.
StackPop ==
    /\ snapshots # <<>>
    /\ snapshots' = SubSeq(snapshots, 1, Len(snapshots) - 1)
    /\ databases' = Top(snapshots)
    /\ result'.op = "ROLLBACK"

\* A step clears the stack, under COMMIT.
StackClear ==
    /\ snapshots' = <<>>
    /\ result'.op = "COMMIT"

\* C32: no step changes a snapshot that is on the stack; the stack changes
\* only by a push of the current DatabaseSet on top (BEGIN or a mutating
\* statement), by a pop of the top that becomes the DatabaseSet (ROLLBACK) or
\* by a full clear (COMMIT), so that ROLLBACKs restore the pushed states in
\* the reverse order of pushing.
C32_SnapshotsImmutable ==
    [][snapshots' = snapshots \/ StackPush \/ StackPop \/ StackClear]_vars

\* A ROLLBACK has popped the top of a stack of two different snapshots and
\* the older one is still on the stack.
C32_Witness ==
    /\ result.op = "ROLLBACK" /\ result.msg = "Rolled back to previous state"
    /\ Len(snapshots) = 1
    /\ snapshots[1] # databases

\* As many ROLLBACKs as the stack has snapshots, submitted while a database
\* stays selected, restore the snapshots from the newest to the oldest.
RollbacksInReverseOrder ==
    \A k \in 1..Len(snapshots) :
        (\A j \in 0..(k - 1) :
            getSelectedDatabase(Repeated(Store, RollbackStmt, j, now)) # 0) =>
           LET r == Repeated(Store, RollbackStmt, k, now)
           IN /\ r.databases = snapshots[Len(snapshots) - k + 1]
              /\ r.snapshots = SubSeq(snapshots, 1, Len(snapshots) - k)

\* C33: when no INSERT of one tab loaded the DatabaseSet while another tab
\* was between its load and its save, every row of the successful INSERTs is
\* in the DatabaseSet; in every run at least one row and at most all of them
\* are.  (With interleaving, a row can be lost: C33_Witness.)
C33_RowsOfCallers ==
    /\ ~callers.interleaved => RowCount(databases) = callers.inserted
    /\ RowCount(databases) <= callers.inserted
    /\ callers.inserted > 0 => RowCount(databases) > 0

\* The lost update: two tabs' INSERTs interleaved, both answered with
\* success, no tab is still running, and the table holds one row.
C33_Witness ==
    /\ callers.interleaved
    /\ callers.inserted = 2
    /\ Loaded = 0
    /\ RowCount(databases) = 1

\* Two INSERTs that did not interleave have both succeeded and both rows are
\* in the table.
BothRowsReached ==
    /\ ~callers.interleaved
    /\ callers.inserted = 2
    /\ RowCount(databases) = 2

\* The two steps of an INSERT taken one after the other are executeQuery on
\* the statement.
LoadThenSaveIsInsert ==
    \A q \in CallerStmts \cup InsertStmts : \A t \in Readings :
        LET l == executeInsertQueryLoad(Store, q, t)
        IN executeQuery(Store, q, t) =
              IF l.tab.pc = "loaded" THEN executeInsertQuerySave(l.st, l.tab) ELSE l.st

\* The definitions of a list that are not blank, in order.
Declared(list) == SelectSeq(list, LAMBDA p : p.name # "")

\* The longest column lists that C34 is checked on.
MaxPieces == 3

\* C34: CREATE TABLE cuts its column list only at the commas outside
\* parentheses: for every list of up to MaxPieces definitions written with a
\* comma between them, the statement succeeds and the table it creates has
\* one column for each definition that is not blank, in the order of the
\* list, with the declared name, length, precision and scale; DECIMAL(10,2)
\* gives one column of precision 10 and scale 2.
C34_SplitAtTopLevelCommas ==
    HasSelection =>
        \A list \in PieceLists(MaxPieces) : \A t \in Readings :
            LET r == executeQuery(Store, CreateTableStmt("v", JoinPieces(list)), t)
                table == selectedDb(r).tables[FindTable(selectedDb(r), "v")]
                shown == [i \in DOMAIN table.columns |->
                            [name |-> table.columns[i].name,
                             length |-> table.columns[i].length,
                             precision |-> table.columns[i].precision,
                             scale |-> table.columns[i].scale]]
                declared == [i \in DOMAIN Declared(list) |->
                            [name |-> Declared(list)[i].name,
                             length |-> Declared(list)[i].length,
                             precision |-> Declared(list)[i].precision,
                             scale |-> Declared(list)[i].scale]]
            IN /\ r.result.op = "CREATE TABLE" /\ r.result.type = "message"
               /\ FindTable(selectedDb(r), "v") # 0
               /\ shown = declared

\* CREATE TABLE t (a DECIMAL(10,2), b INT) has just succeeded: t has the two
\* columns a, of precision 10 and scale 2, and b.
C34_Witness ==
    /\ HasTable("t")
    /\ result.op = "CREATE TABLE" /\ result.type = "message"
    /\ LET table == selectedDb(Store).tables[FindTable(selectedDb(Store), "t")]
       IN /\ Len(table.columns) = 2
          /\ table.columns[1].name = "a"
          /\ table.columns[1].precision = <<10>> /\ table.columns[1].scale = <<2>>
          /\ table.columns[2].name = "b"

\* C35: while no database is selected, executeQuery answers every statement,
\* CREATE DATABASE, USE, COMMIT and ROLLBACK included, with the error 'No
\* database selected' and changes neither the DatabaseSet, the snapshot
\* stack nor the selection; a second statement after it fares the same, so
\* statements alone never make the selection non-empty again.
C35_NoSelectionRejectsAll ==
    getSelectedDatabase(Store) = 0 =>
        \A q \in Statements : \A t \in Readings :
            LET r == executeQuery(Store, q, t)
            IN /\ r = Throw(Store, "", "No database selected")
               /\ \A q2 \in UseStmts \cup CreateDatabaseStmts :
                     LET r2 == executeQuery(r, q2, t)
                     IN /\ r2.result.type = "error"
                        /\ r2.databases = databases
                        /\ r2.snapshots = snapshots
                        /\ r2.selected = selected

\* A statement has just been rejected for want of a selection while the
\* DatabaseSet holds a database and the stack a snapshot.
C35_Witness ==
    /\ getSelectedDatabase(Store) = 0
    /\ databases # <<>>
    /\ snapshots # <<>>
    /\ result.type = "error" /\ result.msg = "No database selected"

\* The text 7 in the input of every column of a table.
Sevens(table) == [c \in {table.columns[j].id : j \in DOMAIN table.columns} |-> <<"7">>]

\* The stores that one use of a form path leaves from st, Date.now() reading
\* t: the create and delete buttons of the database list, and, when a
\* database is selected, the create-table form, the import of a file and,
\* for every table, the delete button, the rename form, the manage-columns
\* form and the Add Row form and, for every row, the Edit Row form and the
\* delete button.  A form of a table is the one of the first table that has
\* the id, which is the table that the handlers find.
FormOutcomes(st, t) ==
    LET di == getSelectedDatabase(st)
        tables == IF di = 0 THEN <<>> ELSE getDatabases(st)[di].tables
        shown(i) == tables[FindIndex(tables, LAMBDA x : x.id = tables[i].id)]
    IN {createDatabase(st, "e", t)}
       \cup {deleteDatabase(st, st.databases[i].id) : i \in DOMAIN st.databases}
       \cup (IF di = 0 THEN {}
             ELSE {openCreateTableModal(st, "u", <<Field("a")>>, t),
                   createTableFromImportedData(st, "t", <<"a">>, t)})
       \cup UNION {{deleteTable(st, tables[i].id),
                    openRenameTableModal(st, tables[i].id, "u"),
                    openManageColumnsModal(st, tables[i].id, Grids(shown(i), "b", <<>>), t),
                    addRow(st, tables[i].id, Sevens(shown(i)), t)} : i \in DOMAIN tables}
       \cup UNION {UNION {{editRow(st, tables[i].id, tables[i].rows[k].id, Sevens(shown(i))),
                           deleteRow(st, tables[i].id, tables[i].rows[k].id)} :
                             k \in DOMAIN tables[i].rows} : i \in DOMAIN tables}

\* C36: no form path pushes onto, pops from or clears the snapshot stack,
\* for one form change and for two in a row; and a ROLLBACK submitted after
\* them makes the DatabaseSet the top snapshot again, so that it discards
\* the form changes made since that snapshot was pushed.
C36_FormsLeaveStack ==
    \A t \in Readings :
        \A s1 \in FormOutcomes(Store, t) :
            /\ s1.snapshots = snapshots
            /\ \A s2 \in FormOutcomes(s1, t) :
                  /\ s2.snapshots = snapshots
                  /\ (snapshots # <<>> /\ getSelectedDatabase(s2) # 0) =>
                        LET r == executeQuery(s2, RollbackStmt, t)
                        IN /\ r.databases = Top(snapshots)
                           /\ r.snapshots = SubSeq(snapshots, 1, Len(snapshots) - 1)

\* The Add Row form has put a row into t since the top snapshot was pushed:
\* the snapshot has the table without rows, the table has a row holding 7,
\* which only the form writes, and a database is selected for the ROLLBACK.
C36_Witness ==
    /\ HasTable("t")
    /\ snapshots # <<>>
    /\ TableCount(Top(snapshots)) > 0 /\ RowCount(Top(snapshots)) = 0
    /\ \E row \in {selectedDb(Store).tables[1].rows[k] :
                      k \in DOMAIN selectedDb(Store).tables[1].rows} :
          \E c \in DOMAIN row.cells : row.cells[c].v = <<"7">>
    /\ executeQuery(Store, RollbackStmt, now).databases = Top(snapshots)

\* INSERT statements on t (a VARCHAR(2), b INT) whose VALUES list and column
\* list differ in length, each with the columns that get a value, in the
\* order of the values: (a, b) VALUES (5); (b, a) VALUES (5); (a) VALUES
\* (5,6); (a, b) VALUES (5,6,7).
UnevenInserts ==
    {[stmt |-> InsertStmt("t", <<"a", "b">>, <<"5">>), set |-> <<"a">>],
     [stmt |-> InsertStmt("t", <<"b", "a">>, <<"5">>), set |-> <<"b">>],
     [stmt |-> InsertStmt("t", <<"a">>, <<"5", ",", "6">>), set |-> <<"a">>],
     [stmt |-> InsertStmt("t", <<"a", "b">>, <<"5", ",", "6", ",", "7">>), set |-> <<"a", "b">>]}

\* The values 5, 6, 7 as the statement's literals are stored.
Literal(i) == ParseLiteral(<<(<<"5", "6", "7">>)[i]>>)

\* C37: an INSERT whose VALUES list is shorter or longer than its column
\* list succeeds with '1 row inserted' and appends one row to the table: the
\* row has the values of the list under the columns that have one, in
\* order, no cell under the columns for which the list has no value, and the
\* values beyond the last column are in no cell.
C37_UnevenInsertAccepted ==
    HasTable("t") =>
        \A u \in UnevenInserts : \A t \in Readings :
            LET ti == FindTable(selectedDb(Store), "t")
                table == selectedDb(Store).tables[ti]
                r == executeQuery(Store, u.stmt, t)
                rows == selectedDb(r).tables[ti].rows
                id(i) == ColumnOf(Store, "t", u.set[i]).id
            IN /\ r.result.type = "message" /\ r.result.op = "INSERT" /\ r.result.n = 1
               /\ Len(rows) = Len(table.rows) + 1
               /\ SubSeq(rows, 1, Len(table.rows)) = table.rows
               /\ DOMAIN rows[Len(rows)].cells = {id(i) : i \in DOMAIN u.set}
               /\ \A i \in DOMAIN u.set : rows[Len(rows)].cells[id(i)] = Literal(i)

\* INSERT INTO t (a, b) VALUES (5) or INSERT INTO t (a) VALUES (5,6) has just
\* succeeded: the last row of t has the cell 5 under a and none under b.
C37_Witness ==
    /\ HasTable("t")
    /\ result.op = "INSERT" /\ result.type = "message"
    /\ LET table == selectedDb(Store).tables[FindTable(selectedDb(Store), "t")]
       IN /\ table.rows # <<>>
          /\ DOMAIN table.rows[Len(table.rows)].cells = {ColumnOf(Store, "t", "a").id}
          /\ table.rows[Len(table.rows)].cells[ColumnOf(Store, "t", "a").id] = Literal(1)

====
